---------------------------- MODULE EvidenceStore ----------------------------
(***************************************************************************)
(* What a CacheProvider promises its caller (packages/cache/src/types.ts): *)
(* a lossy map.  A read answers with the record written last under its key *)
(* or with nothing; it never answers with an older record or with that of  *)
(* another key.  Anything may be forgotten at any time.                    *)
(***************************************************************************)
CONSTANTS
    Key,     \* cache keys
    Record,  \* what can be stored
    Nothing  \* the null of a miss

VARIABLES
    latest,  \* the record held for each key, or Nothing
    last     \* the last call: its kind, its key, the record that went in or out

NoCall == [op |-> "none", key |-> Nothing, row |-> Nothing]

Init ==
    /\ latest = [k \in Key |-> Nothing]
    /\ last = NoCall

Forgets(before, after) ==
    /\ after \in [Key -> Record \cup {Nothing}]
    /\ \A k \in Key : after[k] \in {before[k], Nothing}

(* A write may push any other record out, and even be forgotten at once.   *)
Write(k) ==
    /\ last'.op = "set" /\ last'.key = k /\ last'.row \in Record
    /\ Forgets([latest EXCEPT ![k] = last'.row], latest')

Read(k) ==
    /\ last' \in [op : {"get"}, key : {k}, row : {latest[k], Nothing}]
    /\ UNCHANGED latest

Forget ==
    /\ last' = last \/ last'.op \in {"none", "delete", "cleanup"}
    /\ Forgets(latest, latest')

Next == Forget \/ \E k \in Key : Write(k) \/ Read(k)

Spec == Init /\ [][Next]_<<latest, last>>
=============================================================================
