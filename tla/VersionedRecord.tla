--------------------------- MODULE VersionedRecord ---------------------------
(***************************************************************************)
(* What a record with a version promises to those who edit it: nobody      *)
(* saves over a change he has not seen.  History is only appended to, and  *)
(* each save names how many saves its author had seen: all of them.        *)
(*                                                                         *)
(* Implemented by the assignments of the sales ledger (SalesLedger), IT    *)
(* tickets (ItSupport) and the digital map (DigitalMap).                   *)
(***************************************************************************)
EXTENDS Naturals, Sequences

CONSTANT Docs

VARIABLE history \* for each document, what the author of each save had seen

Init == history = [d \in Docs |-> <<>>]

Save(d) == history' = [history EXCEPT ![d] = Append(@, Len(@))]

Next == \E d \in Docs : Save(d)

Spec == Init /\ [][Next]_history
=============================================================================
