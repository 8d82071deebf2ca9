----------------------------- MODULE MCJobQueue ----------------------------
(***************************************************************************)
(* Instances of JobQueue for TLC.                                          *)
(***************************************************************************)
EXTENDS JobQueue, TLC

CONSTANTS j1, j2, j3, w1, w2, email, slot

\* Workers are interchangeable in every safety property.
WorkerSymmetry == Permutations(Workers)

\* The queue whose workers may crash but neither overrun a reservation nor lose an answer, as the
\* ledger wants it.
TimelyNext ==
    \/ \E j \in Jobs : \/ \E k \in Keys \cup {NoKey} : Enqueue(j, k)
                       \/ BecomesDue(j) \/ LeaseExpires(j) \/ DeleteFinished(j)
    \/ \E k \in OnceKeys : SlotPasses(k)
    \/ \E w \in Workers : \/ Claim(w) \/ Succeed(w) \/ HandlerThrows(w)
                          \/ DeadLetter(w) \/ Retry(w) \/ Abandon(w)

TimelySpec == Init /\ [][TimelyNext]_vars /\ Fairness

=============================================================================
