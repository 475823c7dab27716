---------------------------- MODULE MCTransactions ----------------------------
(***************************************************************************)
(* Three transactions of any kinds.  They are interchangeable, so of the   *)
(* initial states that differ only in who is of which kind MCInit keeps    *)
(* the one in which they stand in the order of KindOrder.                  *)
(***************************************************************************)
EXTENDS SessionTransactions, TLC

KindOrder == <<"turn", "preference", "interrupt", "plan", "start", "finish",
               "compose", "give up", "issue", "resume">>

Place(t) == CHOOSE i \in DOMAIN KindOrder : KindOrder[i] = txs[t].kind

MCInit == Init /\ \A t, u \in Transactions : t < u => Place(t) <= Place(u)

MCSpec == MCInit /\ [][Next]_vars /\ Fairness
=============================================================================
