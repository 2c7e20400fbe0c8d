------------------------------ MODULE FencedLog ------------------------------
(***************************************************************************)
(* What the source ledger promises, without rows, leases or processes: a   *)
(* page log per run, written under epochs.  An epoch authorises at most    *)
(* one page of one run; authority is granted once, may be revoked at any   *)
(* time, and ends with the page or with the next epoch.  Nothing that was  *)
(* written is changed.                                                     *)
(***************************************************************************)
EXTENDS Naturals, Sequences

CONSTANTS
  Runs,      \* the logs
  None,      \* nobody may write
  MaxEpoch   \* bound: epochs of a behaviour

\* What the theorems about the log assume of the constants.  SourceLedger gives
\* them None and MaxGen, of which its own assumptions say as much.
ConstantsFit == None \notin Runs /\ MaxEpoch \in Nat

VARIABLES
  epoch,   \* current epoch
  holder,  \* the run that may get a page in this epoch
  log      \* per run, the epoch of each page

vars == <<epoch, holder, log>>

TypeOK == /\ epoch \in 0 .. MaxEpoch
          /\ holder \in Runs \cup {None}
          /\ log \in [Runs -> Seq(Nat)]

Init == epoch = 0 /\ holder = None /\ log = [r \in Runs |-> <<>>]

Used(e) == \E r \in Runs : \E i \in 1 .. Len(log[r]) : log[r][i] = e

\* A new epoch ends the authority of the old one.
Advance == /\ epoch < MaxEpoch
           /\ epoch' = epoch + 1 /\ holder' = None
           /\ UNCHANGED log

Grant(r) == /\ holder = None /\ epoch > 0 /\ ~Used(epoch)
            /\ holder' = r
            /\ UNCHANGED <<epoch, log>>

Revoke == /\ holder # None
          /\ holder' = None
          /\ UNCHANGED <<epoch, log>>

Write(r) == /\ holder = r
            /\ log' = [log EXCEPT ![r] = Append(@, epoch)]
            /\ holder' = None
            /\ UNCHANGED epoch

Next == \/ Advance \/ Revoke
        \/ \E r \in Runs : Grant(r) \/ Write(r)

Spec == Init /\ [][Next]_vars

-----------------------------------------------------------------------------
\* No two pages, of one run or of two, are written under one epoch, and the
\* pages of a run are written under growing epochs: a batch that was replaced
\* never adds a page behind its successor's back.
OnePagePerEpoch ==
  /\ \A r \in Runs : \A i, j \in 1 .. Len(log[r]) : i < j => log[r][i] < log[r][j]
  /\ \A r, q \in Runs : \A i \in 1 .. Len(log[r]), j \in 1 .. Len(log[q]) :
       log[r][i] = log[q][j] => r = q

=============================================================================
