------------------------------- MODULE ELList -------------------------------
(***************************************************************************)
(* The event list of auparse (src/auparse/ellist.c, nvlist.h): the records *)
(* of the event being assembled, the record cursor, the event's timestamp *)
(* and, per record, the name/value list with its own field cursor.        *)
(*                                                                         *)
(* The C linked lists become sequences; a cursor is an index into its      *)
(* sequence and 0 stands for the NULL pointer.  An event timestamp         *)
(* (sec, milli, serial) is abstracted to one integer that is equal exactly *)
(* when the triples are; 0 is the all-zero triple, the only one whose      *)
(* seconds are 0.  A record keeps the raw line it was built from (the line *)
(* carries its timestamp and its tokens) and the fields parse_up_record    *)
(* produced from it.                                                       *)
(***************************************************************************)
EXTENDS Integers, Sequences, SequencesExt, RecordParser

\* au_event_t as zeroed by aup_list_create / aup_list_clear.
ZeroEvent == 0

\* aup_list_create: empty list, NULL cursor, zero timestamp.
AupListCreate == [recs |-> <<>>, cur |-> 0, e |-> ZeroEvent]

\* aup_list_clear: frees every record and zeroes the list, as create does.
AupListClear(l) == AupListCreate

\* aup_list_first (ellist.h): cursor to the head, NULL for an empty list.
AupListFirst(l) == [l EXCEPT !.cur = IF l.recs = <<>> THEN 0 ELSE 1]

\* aup_list_next: advance a non-NULL cursor, running off the end to NULL.
AupListNext(l) ==
    [l EXCEPT !.cur = IF @ = 0 \/ @ = Len(l.recs) THEN 0 ELSE @ + 1]

\* aup_list_set_event: the event takes the given timestamp.
AupListSetEvent(l, e) == [l EXCEPT !.e = e]

(***************************************************************************)
(* aup_list_append: a new node at the tail becomes current and is parsed. *)
(* parse_up_record leaves the field cursor at the head of the new nvlist;  *)
(* when strtok finds no token at all (a blank line) it returns early and   *)
(* the cursor keeps its created value, NULL, which is also the head of the *)
(* empty list.                                                             *)
(***************************************************************************)
AupListAppend(l, line) ==
    LET p == ParseUpRecord(line.tokens)
    IN  [l EXCEPT !.recs = Append(@, [line  |-> line,
                                      type  |-> p.type,
                                      nv    |-> p.fields,
                                      nvcur |-> p.cur]),
                  !.cur  = Len(l.recs) + 1]

\* Variant of nvlist_first that takes index 1 as the head of any list.
NvlistFirstAlwaysOne(r) == [r EXCEPT !.nvcur = 1]

\* nvlist_first (nvlist.h): field cursor of record r to its head.
NvlistFirst(r) == [r EXCEPT !.nvcur = IF r.nv = <<>> THEN 0 ELSE 1]

\* aup_list_first_field: rewind the field cursor of the current record.
AupListFirstField(l) ==
    IF l.cur = 0 THEN l
    ELSE [l EXCEPT !.recs[l.cur] = NvlistFirst(@)]

\* nvlist_next: advance a non-NULL field cursor, NULL past the tail.
NvlistNext(r) ==
    [r EXCEPT !.nvcur = IF @ = 0 \/ @ = Len(r.nv) THEN 0 ELSE @ + 1]

(***************************************************************************)
(* nvlist_find_name: the first field named name at or after the field      *)
(* cursor; the cursor moves to it when there is one and is left alone      *)
(* otherwise.  Returns the index found, 0 for none.                        *)
(***************************************************************************)
NvlistFindName(r, name) ==
    IF r.nvcur = 0 THEN 0
    ELSE SelectInSubSeq(r.nv, r.nvcur, Len(r.nv), LAMBDA f : f.name = name)

=============================================================================
