---------------------------- MODULE RecordParser ----------------------------
(***************************************************************************)
(* parse_up_record (src/auparse/ellist.c): one raw audit line split into   *)
(* its name/value fields.                                                  *)
(*                                                                         *)
(* A line is the sequence of its space-separated tokens, each abstracted   *)
(* to what the parser tells apart:                                         *)
(*   [k |-> "kv",   name, val]  a token name=val                           *)
(*   [k |-> "msgaudit"]         msg=audit(...): , the timestamp token      *)
(*   [k |-> "msgq", name, val]  msg='name=val , a quoted sub-message       *)
(*   [k |-> "msgq0"]            msg='text with no further '='              *)
(*   [k |-> "word", w]          a token without '=' (w = "avc:", "{", "}"  *)
(*                              or any other word)                          *)
(* Trailing punctuation on values and a leading '(' on names are part of   *)
(* the value and name abstraction.                                         *)
(***************************************************************************)
EXTENDS Integers, Sequences

\* audit_name_to_msg_type is abstracted to the type name itself; 0 is the
\* type a record gets when its first field is not named "type".
NoType == 0

\* The record types whose unlabelled words parse_up_record turns into
\* seresults / seperms fields.
AvcTypes == {"AVC", "USER_AVC"}

(***************************************************************************)
(* One nvlist_append of the loop.  The first field, when named "type",     *)
(* sets the record type.  last is the name the loop's local nvnode holds  *)
(* afterwards.                                                             *)
(***************************************************************************)
AddField(st, name, val) ==
    [fields |-> Append(st.fields, [name |-> name, val |-> val]),
     type   |-> IF st.fields = <<>> /\ name = "type" THEN val ELSE st.type,
     last   |-> name]

\* The index of the first token at or after i that starts with '}', or
\* Len(toks) + 1 when strtok runs out first.
CloseBrace(toks, i) ==
    LET J == {j \in i..Len(toks) : toks[j].k = "word" /\ toks[j].w = "}"}
    IN  IF J = {} THEN Len(toks) + 1
        ELSE CHOOSE j \in J : \A x \in J : j <= x

(***************************************************************************)
(* The strtok loop from token i on.  For AVC records a word while one      *)
(* field is stored is the seresults field (after skipping "avc:"); a       *)
(* brace group while two are stored becomes one seperms field.  A word     *)
(* that is not '{' while two fields are stored is appended under the name  *)
(* the loop's nvnode still holds from the previous append: the code never  *)
(* assigns n.name on that path (an uninitialised read; the model takes    *)
(* the outcome of the stack slot being reused across iterations).         *)
(***************************************************************************)
RECURSIVE ParseFrom(_, _, _)
ParseFrom(toks, i, st) ==
  IF i > Len(toks) THEN st
  ELSE
    LET t == toks[i]
        skip == ParseFrom(toks, i + 1, st)
    IN
    CASE t.k \in {"kv", "msgq"} ->
           ParseFrom(toks, i + 1, AddField(st, t.name, t.val))
      [] t.k = "word" /\ st.type \in AvcTypes /\ Len(st.fields) = 1 ->
           IF t.w = "avc:" THEN skip
           ELSE ParseFrom(toks, i + 1, AddField(st, "seresults", t.w))
      [] t.k = "word" /\ st.type \in AvcTypes /\ Len(st.fields) = 2 ->
           IF t.w = "{"
           THEN LET j == CloseBrace(toks, i + 1)
                    perms == [x \in 1..(j - i - 1) |-> toks[i + x].w]
                IN  ParseFrom(toks, j + 1, AddField(st, "seperms", perms))
           ELSE ParseFrom(toks, i + 1, AddField(st, st.last, t.w))
      [] OTHER -> skip

(***************************************************************************)
(* parse_up_record: the fields, the record type and where it leaves the    *)
(* field cursor.  A line with no token at all returns before the loop and  *)
(* leaves the cursor NULL; otherwise the cursor is reset to the head,      *)
(* which is NULL (0) for an empty field list.                              *)
(***************************************************************************)
ParseUpRecord(toks) ==
    LET st == ParseFrom(toks, 1, [fields |-> <<>>, type |-> NoType,
                                  last |-> "none"])
    IN  [fields |-> st.fields, type |-> st.type,
         cur    |-> IF st.fields = <<>> THEN 0 ELSE 1]

=============================================================================
