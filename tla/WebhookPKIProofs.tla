-------------------------- MODULE WebhookPKIProofs --------------------------
(***************************************************************************)
(* WebhookPKI's processes never disagree about the CA, and the certificate *)
(* is renewed in time, for any number of processes and faults and for any  *)
(* period, threshold and validity.                                         *)
(***************************************************************************)
EXTENDS WebhookPKI, TLAPS

\* Before a CA is stored nothing is signed or trusted and no run holds one;
\* afterwards every run that is past ensureCA holds the stored CA.
OneCA ==
    ~ lostCA =>
      /\ cert.issuer \in {0, ca} /\ \A c \in Config : bundle[c] \in {0, ca}
      /\ \A o \in Operator :
           pc[o] \in {"cert", "mutating", "validating"} =>
             held[o] = ca /\ ca # 0

\* Only the leader runs again after its start-up, and a leader that is idle
\* with no run due has a ticker that will make one due.
OneRuns ==
    /\ \A o \in ready \ {leader} : pc[o] = "idle"
    /\ leader # NoOne /\ pc[leader] = "idle" /\ ~ due => timer > 0

\* The time the certificate may still lose before a run of the leader is due.
Ahead ==
    IF leader = NoOne THEN 0
    ELSE IF pc[leader] \in {"mutating", "validating"} THEN Interval
    ELSE IF pc[leader] = "idle" /\ ~ due THEN timer
    ELSE 0

\* Each failed run and each late unit of time costs a period at most.
InTime ==
    IF cert.issuer = 0 THEN cert.left = Validity
    ELSE cert.left >= Threshold - Interval * (1 + missed) + Ahead

PKIInv == TypeOK /\ OneCA /\ OneRuns /\ InTime

LEMMA AheadBound ==
    ASSUME TypeOK
    PROVE  Ahead \in 0 .. Interval
<1>1. Interval \in Nat /\ timer \in 0 .. Interval
  BY PKIAssumption DEF TypeOK
<1>2. QED BY <1>1 DEF Ahead

\* One more missed run is worth a period.
LEMMA OneMore ==
    ASSUME NEW k \in Nat
    PROVE  /\ Interval * (1 + k) \in Nat
           /\ Interval * (1 + (k + 1)) = Interval * (1 + k) + Interval
BY PKIAssumption

\* The certificate, its age and the counts of a step that is not a look.
LEMMA NoLook ==
    ASSUME TypeOK, TypeOK', InTime,
           \/ cert' = cert /\ missed' = missed /\ Ahead' <= Ahead
           \/ cert' = cert /\ missed' = missed + 1
           \/ cert' = NoCert
           \/ /\ cert' = [cert EXCEPT !.left = @ - 1] /\ cert.issuer # 0
              /\ \/ missed' = missed /\ Ahead' <= Ahead - 1
                 \/ missed' = missed + 1 /\ Ahead' <= Ahead
           \/ cert' = cert /\ cert.issuer = 0
    PROVE  InTime'
<1>1. /\ Ahead \in 0 .. Interval /\ Ahead' \in 0 .. Interval
      /\ Interval \in Nat /\ Interval > 0 /\ Threshold \in Nat /\ Validity \in Nat
      /\ missed \in Nat /\ missed' \in Nat /\ cert.left \in Int /\ cert.issuer \in Nat
  <2>1. Ahead' \in 0 .. Interval
    <3>1. Interval \in Nat /\ timer' \in 0 .. Interval
      BY PKIAssumption DEF TypeOK
    <3>2. QED BY <3>1 DEF Ahead
  <2>2. QED BY <2>1, AheadBound, PKIAssumption DEF TypeOK
<1> DEFINE Cost == Interval * (1 + missed)
           NewCost == Interval * (1 + missed')
<1>2. Cost \in Nat /\ (missed' = missed => NewCost = Cost)
      /\ (missed' = missed + 1 => NewCost = Cost + Interval)
  BY <1>1, OneMore
<1>3. InTime <=> IF cert.issuer = 0 THEN cert.left = Validity
                 ELSE cert.left >= Threshold - Cost + Ahead
  BY DEF InTime
<1>4. InTime' <=> IF cert'.issuer = 0 THEN cert'.left = Validity
                  ELSE cert'.left >= Threshold - NewCost + Ahead'
  BY DEF InTime
<1> HIDE DEF Cost, NewCost
<1>5. CASE \/ cert' = cert /\ missed' = missed /\ Ahead' <= Ahead
           \/ cert' = cert /\ missed' = missed + 1
           \/ cert' = cert /\ cert.issuer = 0
  BY <1>1, <1>2, <1>3, <1>4, <1>5
<1>6. CASE cert' = NoCert
  BY <1>4, <1>6 DEF NoCert
<1>7. CASE /\ cert' = [cert EXCEPT !.left = @ - 1] /\ cert.issuer # 0
           /\ \/ missed' = missed /\ Ahead' <= Ahead - 1
              \/ missed' = missed + 1 /\ Ahead' <= Ahead
  <2>1. cert'.left = cert.left - 1 /\ cert'.issuer = cert.issuer
    BY <1>7 DEF TypeOK
  <2>2. QED BY <1>1, <1>2, <1>3, <1>4, <1>7, <2>1
<1>8. QED BY <1>5, <1>6, <1>7

\* A process's own steps keep the types.
LEMMA ProcessTypes ==
    ASSUME PKIInv, NEW o \in Operator, Process(o)
    PROVE  TypeOK' /\ OneCA' /\ OneRuns'
<1> USE PKIAssumption DEF PKIInv, TypeOK, OneCA, OneRuns, pkiVars, clockVars, Goto
<1>1. CASE Begin(o)
  BY <1>1 DEF Begin
<1>2. CASE Lead(o)
  BY <1>2 DEF Lead
<1>3. CASE LoadCA(o)
  BY <1>3 DEF LoadCA
<1>4. CASE MintCA(o)
  <2>1. CASE ca = 0
    BY <1>4, <2>1 DEF MintCA
  <2>2. CASE ca # 0
    BY <1>4, <2>2 DEF MintCA, Fail, EndRun
  <2>3. QED BY <2>1, <2>2
<1>5. CASE ensureWebhookCert(o)
  BY <1>5 DEF ensureWebhookCert, needsRenewal
<1>6. CASE patchMutatingWebhookConfiguration(o)
  BY <1>6 DEF patchMutatingWebhookConfiguration, Config
<1>7. CASE patchValidatingWebhookConfiguration(o)
  BY <1>7 DEF patchValidatingWebhookConfiguration, Config, EndRun
<1>8. QED BY <1>1, <1>2, <1>3, <1>4, <1>5, <1>6, <1>7 DEF Process

LEMMA ProcessKeeps ==
    ASSUME PKIInv, NEW o \in Operator, Process(o)
    PROVE  PKIInv'
<1>0. TypeOK /\ OneRuns /\ InTime /\ TypeOK' /\ OneCA' /\ OneRuns'
  BY ProcessTypes DEF PKIInv
<1>1. CASE ensureWebhookCert(o)
  <2>1. /\ Interval \in Nat /\ Threshold \in Nat /\ Validity >= Threshold
        /\ Validity \in Nat /\ cert.left \in Int
    BY <1>0, PKIAssumption DEF TypeOK
  <2>2. cert'.left >= Threshold
    BY <1>1, <2>1 DEF ensureWebhookCert, needsRenewal
  <2>3. Ahead' \in 0 .. Interval
    <3>1. timer' \in 0 .. Interval
      BY <1>0 DEF TypeOK
    <3>2. QED BY <2>1, <3>1 DEF Ahead
  <2>4. Interval * (1 + missed') = Interval
    BY <1>1, <2>1 DEF ensureWebhookCert
  <2>5. cert'.issuer # 0 \/ cert'.left = Validity
    BY <1>1 DEF ensureWebhookCert
  <2>6. InTime' <=> IF cert'.issuer = 0 THEN cert'.left = Validity
                  ELSE cert'.left >= Threshold - Interval * (1 + missed') + Ahead'
    BY DEF InTime
  <2>7. cert'.left \in Int
    BY <1>0 DEF TypeOK
  <2>8. InTime'
    BY <2>1, <2>2, <2>3, <2>4, <2>5, <2>6, <2>7
  <2>9. QED BY <1>0, <2>8 DEF PKIInv
<1>2. CASE ~ ensureWebhookCert(o)
  <2>1. \/ cert' = cert /\ missed' = missed /\ Ahead' <= Ahead
        \/ cert' = cert /\ missed' = missed + 1
    <3> USE <1>0, PKIAssumption DEF TypeOK, OneRuns, pkiVars, clockVars, Goto, Ahead
    <3>1. CASE Begin(o)
      BY <3>1 DEF Begin
    <3>2. CASE Lead(o)
      BY <3>2 DEF Lead
    <3>3. CASE LoadCA(o)
      BY <3>3 DEF LoadCA
    <3>4. CASE MintCA(o)
      BY <3>4 DEF MintCA, Fail, EndRun
    <3>5. CASE patchMutatingWebhookConfiguration(o)
      BY <3>5 DEF patchMutatingWebhookConfiguration
    <3>6. CASE patchValidatingWebhookConfiguration(o)
      BY <3>6 DEF patchValidatingWebhookConfiguration, EndRun
    <3>7. QED BY <1>2, <3>1, <3>2, <3>3, <3>4, <3>5, <3>6 DEF Process
  <2>2. QED BY <1>0, <2>1, NoLook DEF PKIInv
<1>3. QED BY <1>1, <1>2

\* Faults, deletions and time.
LEMMA EnvironmentKeeps ==
    ASSUME PKIInv, Environment
    PROVE  PKIInv'
<1> USE PKIAssumption DEF PKIInv, TypeOK, OneCA, OneRuns, pkiVars, clockVars, Goto,
                          Fault, Config
<1>1. CASE Loses
  <2>1. CASE ca' = 0 /\ lostCA' = TRUE /\ UNCHANGED <<cert, bundle>>
    BY <1>1, <2>1 DEF Loses, InTime, Ahead
  <2>2. CASE cert' = NoCert /\ UNCHANGED <<ca, bundle, lostCA>>
    BY <1>1, <2>2 DEF Loses, NoCert, InTime
  <2>3. CASE /\ \E c \in Config : bundle' = [bundle EXCEPT ![c] = 0]
             /\ UNCHANGED <<ca, cert, lostCA>>
    BY <1>1, <2>3 DEF Loses, InTime, Ahead
  <2>4. QED BY <1>1, <2>1, <2>2, <2>3, Zenon DEF Loses
<1>2. CASE Tick \/ LateTick
  <2>1. \/ cert' = cert /\ cert.issuer = 0
        \/ cert.issuer # 0 /\ cert' = [cert EXCEPT !.left = @ - 1]
    BY <1>2 DEF Tick, LateTick, Elapse
  <2>2. UNCHANGED <<ca, minted, bundle, pc, held, ready, leader, lostCA>>
    BY <1>2 DEF Tick, LateTick, Elapse
  <2>3. /\ timer \in 0 .. Interval /\ timer' \in 0 .. Interval
        /\ timer' = IF timer = 1 THEN Interval ELSE IF timer = 0 THEN 0 ELSE timer - 1
    BY <1>2 DEF Tick, LateTick, Elapse
  <2>4. missed' \in Nat /\ faults' \in 0 .. MaxFaults
    BY <1>2 DEF Tick, LateTick
  <2>5. due' = (due \/ timer = 1)
    BY <1>2, Zenon DEF Tick, LateTick, Elapse
  <2>6. OneCA'
    BY <2>1, <2>2
  <2>7. TypeOK'
    <3>1. cert' \in [issuer : Nat, left : Int]
      BY <2>1
    <3>2. due' \in BOOLEAN
      BY <2>5, Zenon
    <3>3. QED BY <3>1, <3>2, <2>2, <2>3, <2>4, Zenon
  <2>8. OneRuns'
    BY <2>2, <2>3, <2>5
  <2>9. InTime'
    <3>1. CASE Tick
      <4>1. missed' = missed /\ Ahead = timer /\ timer > 0
        BY <3>1 DEF Tick, OnTime, Ahead
      <4>2. Ahead' <= Ahead - 1
        <5>1. /\ leader' = leader /\ leader' # NoOne /\ pc'[leader'] = "idle"
              /\ (due' <=> timer = 1)
          BY <3>1, <2>2, <2>5 DEF Tick, OnTime
        <5>2. CASE timer = 1
          <6>1. Ahead' = 0
            BY <5>1, <5>2 DEF Ahead
          <6>2. QED BY <4>1, <5>2, <6>1
        <5>3. CASE timer # 1
          <6>1. Ahead' = timer' /\ timer' = timer - 1
            BY <4>1, <5>1, <5>3, <2>3 DEF Ahead
          <6>2. QED BY <4>1, <2>3, <6>1
        <5>4. QED BY <5>2, <5>3
      <4>3. QED BY <2>1, <2>7, <4>1, <4>2, NoLook
    <3>2. CASE LateTick
      <4>1. missed' = missed + 1
        BY <3>2 DEF LateTick
      <4>2. Ahead' <= Ahead
        BY <3>2, <2>2, <2>3, <2>5 DEF LateTick, OnTime, Ahead
      <4>3. QED BY <2>1, <2>7, <4>1, <4>2, NoLook
    <3>3. QED BY <1>2, <3>1, <3>2
  <2>10. QED BY <2>6, <2>7, <2>8, <2>9
<1>3. ASSUME NEW o \in Operator, CallFails(o) PROVE PKIInv'
  <2>1. TypeOK' /\ OneCA' /\ OneRuns'
    BY <1>3 DEF CallFails, Fail, EndRun
  <2>2. \/ cert' = cert /\ missed' = missed /\ Ahead' <= Ahead
        \/ cert' = cert /\ missed' = missed + 1
    BY <1>3 DEF CallFails, Fail, EndRun, Ahead
  <2>3. InTime'
    BY <2>1, <2>2, NoLook
  <2>4. QED BY <2>1, <2>3
<1>4. ASSUME NEW o \in Operator, Crash(o) PROVE PKIInv'
  <2>0. /\ cert' = cert /\ missed' = missed
        /\ UNCHANGED <<ca, minted, bundle, held, lostCA>>
        /\ faults' \in 0 .. MaxFaults /\ ready' = ready \ {o}
        /\ pc' = [pc EXCEPT ![o] = "down"]
    BY <1>4 DEF Crash
  <2>1. TypeOK' /\ OneCA' /\ OneRuns' /\ Ahead' <= Ahead
    <3>0. Ahead \in 0 .. Interval
      BY AheadBound
    <3>1. CASE leader = o /\ leader' = NoOne /\ timer' = 0 /\ ~ due' /\ due' \in BOOLEAN
      <4>1. TypeOK' /\ OneCA' /\ OneRuns'
        BY <2>0, <3>1
      <4>2. Ahead' = 0
        BY <3>1 DEF Ahead
      <4>3. QED BY <3>0, <4>1, <4>2
    <3>2. CASE leader # o /\ UNCHANGED <<leader, timer, due>>
      <4>1. TypeOK' /\ OneCA' /\ OneRuns'
        BY <2>0, <3>2
      <4>2. Ahead' = Ahead
        BY <2>0, <3>2 DEF Ahead
      <4>3. QED BY <3>0, <4>1, <4>2
    <3>3. CASE leader = o /\ leader' = NoOne /\ timer' = 0 /\ due' = FALSE
      <4>1. ~ due' /\ due' \in BOOLEAN
        BY <3>3, Zenon
      <4>2. QED BY <3>1, <3>3, <4>1
    <3>4. QED BY <1>4, <3>2, <3>3, Zenon DEF Crash
  <2>2. cert' = cert /\ missed' = missed /\ Ahead' <= Ahead
    BY <2>0, <2>1
  <2>3. InTime'
    BY <2>1, <2>2, NoLook
  <2>4. QED BY <2>1, <2>3
<1>5. QED BY <1>1, <1>2, <1>3, <1>4 DEF Environment

LEMMA PKIInvariant == Spec => []PKIInv
<1>1. Init => PKIInv
  <2>1. Init => TypeOK
    <3>1. Init => /\ ready = {} /\ leader \in ready \cup {NoOne}
                  /\ lostCA \in BOOLEAN /\ due \in BOOLEAN
      BY Zenon DEF Init
    <3>2. Init => /\ timer \in 0 .. Interval /\ missed \in Nat /\ faults \in 0 .. MaxFaults
                  /\ cert \in [issuer : Nat, left : Int] /\ ca \in Nat /\ minted \in Nat
      BY PKIAssumption DEF Init, NoCert
    <3>3. QED BY <3>1, <3>2 DEF Init, TypeOK
  <2>2. QED BY <2>1, PKIAssumption DEF Init, PKIInv, OneCA, OneRuns, InTime, NoCert, Config
<1>2. PKIInv /\ [Next]_vars => PKIInv'
  <2>1. ASSUME PKIInv, UNCHANGED vars PROVE PKIInv'
    BY <2>1 DEF PKIInv, TypeOK, OneCA, OneRuns, InTime, Ahead, vars, pkiVars, clockVars
  <2>2. QED BY <2>1, ProcessKeeps, EnvironmentKeeps DEF Next
<1>3. QED BY <1>1, <1>2, PTL DEF Spec

\* The variables keep their types; in particular only a process that is past
\* its start-up holds the leader lease.
THEOREM PKITyped == Spec => []TypeOK
<1>1. PKIInv => TypeOK
  BY DEF PKIInv
<1>2. QED BY <1>1, PKIInvariant, PTL

\* While the CA is not deleted, what is signed and what is trusted are one CA.
THEOREM CertificatesMatchTrust == Spec => []NoDrift
<1>1. PKIInv => NoDrift
  BY DEF PKIInv, OneCA, NoDrift
<1>2. QED BY <1>1, PKIInvariant, PTL

\* For every period, threshold and validity: the certificate is valid as long
\* as the threshold is more than a period, and one more for each run of the
\* leader that failed or was late since the certificate was last looked at.
THEOREM RenewedInTime == Spec => []NeverExpires
<1>1. PKIInv => NeverExpires
  <2> SUFFICES ASSUME PKIInv, Interval * (1 + missed) < Threshold PROVE cert.left > 0
    BY DEF NeverExpires
  <2>1. Ahead \in 0 .. Interval /\ missed \in Nat /\ cert.left \in Int
    BY AheadBound DEF PKIInv, TypeOK
  <2>2. Interval * (1 + missed) \in Nat
    BY <2>1, OneMore
  <2>3. QED BY <2>1, <2>2, PKIAssumption DEF PKIInv, InTime
<1>2. QED BY <1>1, PKIInvariant, PTL
=============================================================================
