-------------------------- MODULE FencedLogProofs ---------------------------
(***************************************************************************)
(* An epoch that is granted only while unused, and ends with its page,     *)
(* orders the pages of every run and separates those of different runs.    *)
(***************************************************************************)
EXTENDS FencedLog, TLAPS

\* Every page was written under an epoch begun by now, and the epoch that
\* somebody may write under has no page yet.
EpochsBegun == \A r \in Runs : \A i \in 1 .. Len(log[r]) : log[r][i] <= epoch
Fresh       == holder # None => ~Used(epoch)

LogInv == TypeOK /\ EpochsBegun /\ Fresh /\ OnePagePerEpoch

LEMMA LogInit == ConstantsFit /\ Init => LogInv
  BY DEF ConstantsFit, Init, LogInv, TypeOK, EpochsBegun, Fresh, OnePagePerEpoch

\* The page of a granted epoch comes after all pages of its run, and no other
\* run has a page of that epoch.
LEMMA LogWrite ==
  ASSUME ConstantsFit, LogInv, NEW r \in Runs, Write(r)
  PROVE  LogInv'
  <1>1. /\ epoch \in Nat /\ log \in [Runs -> Seq(Nat)] /\ holder = r /\ holder # None
        /\ epoch' = epoch /\ holder' = None
    BY DEF ConstantsFit, Write, LogInv, TypeOK
  <1>2. \A q \in Runs : \A i \in 1 .. Len(log[q]) : log[q][i] \in Nat /\ log[q][i] < epoch
    BY <1>1 DEF LogInv, EpochsBegun, Fresh, Used
  <1>3. log' = [log EXCEPT ![r] = Append(log[r], epoch)]
    BY DEF Write
  <1>4. /\ Len(log'[r]) = Len(log[r]) + 1
        /\ log'[r][Len(log[r]) + 1] = epoch
        /\ \A i \in 1 .. Len(log[r]) : log'[r][i] = log[r][i]
        /\ Len(log[r]) \in Nat
    BY <1>1, <1>3
  <1>5. \A q \in Runs \ {r} : log'[q] = log[q]
    BY <1>1, <1>3
  <1>6. TypeOK'
    BY <1>1, <1>3 DEF LogInv, TypeOK
  <1>7. EpochsBegun'
    <2>1. ASSUME NEW q \in Runs, NEW i \in 1 .. Len(log'[q]) PROVE log'[q][i] <= epoch'
      <3>1. CASE q = r
        <4>1. CASE i \in 1 .. Len(log[r])
          <5>1. log'[r][i] = log[r][i] /\ log[r][i] \in Nat /\ log[r][i] < epoch
            BY <1>1, <1>2, <1>4, <4>1
          <5>2. QED
            BY <1>1, <3>1, <5>1
        <4>2. CASE i = Len(log[r]) + 1
          BY <1>1, <1>4, <3>1, <4>2
        <4>3. QED
          BY <1>4, <2>1, <3>1, <4>1, <4>2
      <3>2. CASE q # r
        BY <1>1, <1>2, <1>5, <2>1, <3>2
      <3>3. QED
        BY <3>1, <3>2
    <2>2. QED
      BY <2>1 DEF EpochsBegun
  <1>8. Fresh'
    BY <1>1 DEF Fresh
  <1>9. ASSUME NEW q \in Runs, NEW i \in 1 .. Len(log'[q]), NEW j \in 1 .. Len(log'[q]), i < j
        PROVE  log'[q][i] < log'[q][j]
    <2>1. CASE q # r
      BY <1>5, <1>9, <2>1 DEF LogInv, OnePagePerEpoch
    <2>2. CASE q = r
      <3>1. i \in 1 .. Len(log[r]) /\ log'[r][i] = log[r][i]
        BY <1>4, <1>9, <2>2
      <3>2. CASE j = Len(log[r]) + 1
        BY <1>2, <1>4, <2>2, <3>1, <3>2
      <3>3. CASE j # Len(log[r]) + 1
        <4>1. j \in 1 .. Len(log[r])
          BY <1>4, <1>9, <2>2, <3>3
        <4>2. QED
          BY <1>4, <1>9, <2>2, <3>1, <4>1 DEF LogInv, OnePagePerEpoch
      <3>4. QED
        BY <3>2, <3>3
    <2>3. QED
      BY <2>1, <2>2
  <1>10. ASSUME NEW q \in Runs, NEW s \in Runs, NEW i \in 1 .. Len(log'[q]),
                NEW j \in 1 .. Len(log'[s]), log'[q][i] = log'[s][j], q # s
         PROVE  FALSE
    <2>1. ASSUME NEW t \in Runs, NEW k \in 1 .. Len(log'[t])
          PROVE  \/ t = r /\ log'[t][k] = epoch
                 \/ k \in 1 .. Len(log[t]) /\ log'[t][k] = log[t][k] /\ log[t][k] < epoch
      <3>1. CASE t = r
        BY <1>2, <1>4, <2>1, <3>1
      <3>2. CASE t # r
        BY <1>2, <1>5, <2>1, <3>2
      <3>3. QED
        BY <3>1, <3>2
    <2>2. CASE q # r /\ s # r
      BY <1>5, <1>10, <2>2 DEF LogInv, OnePagePerEpoch
    <2>3. CASE q = r
      <3>1. j \in 1 .. Len(log[s]) /\ log'[s][j] = log[s][j] /\ log[s][j] < epoch /\ log[s][j] \in Nat
        BY <1>2, <1>5, <1>10, <2>3
      <3>2. log'[q][i] # epoch
        BY <1>1, <1>10, <3>1
      <3>3. i \in 1 .. Len(log[q]) /\ log'[q][i] = log[q][i]
        BY <1>10, <2>1, <2>3, <3>2
      <3>4. QED
        BY <1>10, <3>1, <3>3 DEF LogInv, OnePagePerEpoch
    <2>4. CASE s = r
      <3>1. i \in 1 .. Len(log[q]) /\ log'[q][i] = log[q][i] /\ log[q][i] < epoch /\ log[q][i] \in Nat
        BY <1>2, <1>5, <1>10, <2>4
      <3>2. log'[s][j] # epoch
        BY <1>1, <1>10, <3>1
      <3>3. j \in 1 .. Len(log[s]) /\ log'[s][j] = log[s][j]
        BY <1>10, <2>1, <2>4, <3>2
      <3>4. QED
        BY <1>10, <3>1, <3>3 DEF LogInv, OnePagePerEpoch
    <2>5. QED
      BY <2>2, <2>3, <2>4
  <1>11. OnePagePerEpoch'
    BY <1>9, <1>10 DEF OnePagePerEpoch
  <1>12. QED
    BY <1>6, <1>7, <1>8, <1>11 DEF LogInv

LEMMA LogStep == ConstantsFit /\ LogInv /\ [Next]_vars => LogInv'
  <1> SUFFICES ASSUME ConstantsFit, LogInv, [Next]_vars PROVE LogInv'
    OBVIOUS
  <1> USE DEF LogInv
  <1>1. CASE Advance
    <2>1. /\ epoch \in Nat /\ epoch' = epoch + 1 /\ epoch' \in 0 .. MaxEpoch
          /\ holder' = None /\ UNCHANGED log
      BY <1>1 DEF ConstantsFit, Advance, TypeOK
    <2>2. EpochsBegun'
      BY <2>1 DEF EpochsBegun, TypeOK
    <2>3. TypeOK' /\ Fresh' /\ OnePagePerEpoch'
      BY <2>1 DEF TypeOK, Fresh, OnePagePerEpoch
    <2>4. QED
      BY <2>2, <2>3
  <1>2. ASSUME NEW r \in Runs, Grant(r) PROVE LogInv'
    BY <1>2 DEF Grant, TypeOK, EpochsBegun, Fresh, Used, OnePagePerEpoch
  <1>3. CASE Revoke
    BY <1>3 DEF Revoke, TypeOK, EpochsBegun, Fresh, OnePagePerEpoch
  <1>4. ASSUME NEW r \in Runs, Write(r) PROVE LogInv'
    BY <1>4, LogWrite
  <1>5. CASE UNCHANGED vars
    BY <1>5 DEF vars, TypeOK, EpochsBegun, Fresh, Used, OnePagePerEpoch
  <1>6. QED
    BY <1>1, <1>2, <1>3, <1>4, <1>5 DEF Next

\* Pages of one run carry growing epochs, and no two runs share one.
THEOREM EpochsOrderPages == ASSUME ConstantsFit PROVE Spec => []OnePagePerEpoch
  <1>1. Init => LogInv
    BY LogInit
  <1>2. LogInv /\ [Next]_vars => LogInv'
    BY LogStep
  <1>3. LogInv => OnePagePerEpoch
    BY DEF LogInv
  <1>4. QED
    BY <1>1, <1>2, <1>3, PTL DEF Spec

=============================================================================
