----------------------------- MODULE WebhookPKI -----------------------------
(***************************************************************************)
(* The certificates of the admission webhooks.  Every operator process     *)
(* runs EnsureWebhookPKI before it starts, and the elected leader again at *)
(* once and at every tick of a ticker: a CA is kept in one Secret, the     *)
(* certificate of the webhook server in another, and the CA's certificate  *)
(* is the caBundle of two webhook configurations.  All processes write to  *)
(* the same objects.                                                       *)
(*                                                                         *)
(* A CA is a number, 0 for none.  A Get and the Create or Update after it  *)
(* are one step where a conflict only makes the call fail.                 *)
(***************************************************************************)
EXTENDS Integers

CONSTANTS
    Operator,   \* the operator's processes
    NoOne,      \* no leader
    Interval,   \* period of the ticker, in units of time
    Threshold,  \* a certificate is renewed when it has less left than this
    Validity,   \* life of a new certificate
    MaxFaults   \* bound: crashes, failed calls, deletions, reapplied manifests,
                \*   units of time in which a run that is due is not made

ASSUME PKIAssumption ==
    /\ NoOne \notin Operator
    /\ Interval \in Nat /\ Interval > 0
    /\ Threshold \in Nat /\ Threshold > 0
    /\ Validity \in Nat /\ Validity >= Threshold /\ MaxFaults \in Nat

Config == {"mutating", "validating"}
NoCert == [issuer |-> 0, left |-> Validity]

VARIABLES
    ca,       \* the CA in redis-operator-ca-secret
    minted,   \* number of CAs ever generated
    cert,     \* the certificate in redis-operator-webhook-cert: who signed it,
              \*   and how long it is still valid
    bundle,   \* caBundle of each configuration
    pc,       \* each process: its next call, "down", or "idle" between runs
    held,     \* the CA that the run of each process has loaded
    ready,    \* processes that are past their start-up
    leader,   \* who holds the leader election lease
    timer,    \* time to the next tick of the leader's ticker, 0 before there is one
    due,      \* the leader's first run, or a tick in the ticker's channel, waits
    missed,   \* failed runs of the leader, and units of time in which one was
              \*   due, since a process last looked at the certificate
    lostCA,   \* the CA's Secret was deleted at some time
    faults

pkiVars == <<ca, minted, cert, bundle>>
clockVars == <<timer, due, missed>>
vars == <<pkiVars, pc, held, ready, leader, clockVars, lostCA, faults>>

Init ==
    /\ ca = 0 /\ minted = 0 /\ cert = NoCert /\ bundle = [c \in Config |-> 0]
    /\ pc = [o \in Operator |-> "down"] /\ held = [o \in Operator |-> 0]
    /\ ready = {} /\ leader = NoOne /\ timer = 0 /\ due = FALSE /\ missed = 0
    /\ lostCA = FALSE /\ faults = 0

Goto(o, at) == pc' = [pc EXCEPT ![o] = at]

\* time.NewTicker after the leader's first run.
EndRun(o) == timer' = IF leader = o /\ timer = 0 THEN Interval ELSE timer

\* An error ends a process that is starting, and a leader's run.
Fail(o) ==
    /\ Goto(o, IF o \in ready THEN "idle" ELSE "down")
    /\ EndRun(o) /\ due' = due
    /\ missed' = IF leader = o THEN missed + 1 ELSE missed
-----------------------------------------------------------------------------
(* A process: RunController and WebhookPKIReconciler *)

\* The process starts, or the leader makes its first run or takes a tick.
Begin(o) ==
    /\ \/ pc[o] = "down" /\ due' = due
       \/ pc[o] = "idle" /\ leader = o /\ due /\ due' = FALSE
    /\ Goto(o, "ca")
    /\ UNCHANGED <<pkiVars, held, ready, leader, timer, missed, lostCA, faults>>

\* Faulty variant: the manager starts before the certificates are there.
Lead_Unready(o) ==
    /\ leader = NoOne
    /\ leader' = o /\ due' = TRUE
    /\ UNCHANGED <<pkiVars, pc, held, ready, timer, missed, lostCA, faults>>

\* A process that is past its start-up is elected; the first run is due.
Lead(o) ==
    /\ leader = NoOne /\ o \in ready
    /\ leader' = o /\ due' = TRUE
    /\ UNCHANGED <<pkiVars, pc, held, ready, timer, missed, lostCA, faults>>

\* ensureCA: the Secret is read, ...
LoadCA(o) ==
    /\ pc[o] = "ca"
    /\ held' = [held EXCEPT ![o] = ca]
    /\ Goto(o, IF ca = 0 THEN "mint" ELSE "cert")
    /\ UNCHANGED <<pkiVars, ready, leader, clockVars, lostCA, faults>>

\* Faulty variant: a CA that another process has stored is replaced.
MintCA_Overwrites(o) ==
    /\ pc[o] = "mint"
    /\ ca' = minted + 1 /\ minted' = minted + 1
    /\ held' = [held EXCEPT ![o] = minted + 1]
    /\ Goto(o, "cert")
    /\ UNCHANGED <<cert, bundle, ready, leader, clockVars, lostCA, faults>>

\* ... and created if there was none: an error if there is one by now.
MintCA(o) ==
    /\ pc[o] = "mint"
    /\ \/ /\ ca = 0
          /\ ca' = minted + 1 /\ minted' = minted + 1
          /\ held' = [held EXCEPT ![o] = minted + 1]
          /\ Goto(o, "cert") /\ UNCHANGED clockVars
       \/ ca # 0 /\ Fail(o) /\ UNCHANGED <<ca, minted, held>>
    /\ UNCHANGED <<cert, bundle, ready, leader, lostCA, faults>>

\* Faulty variant: renewed when it has expired.
needsRenewal_Late == cert.left <= 0

needsRenewal == cert.left < Threshold

\* ensureWebhookCert: who signed a certificate that is still good for long is
\* not looked at.
ensureWebhookCert(o) ==
    /\ pc[o] = "cert"
    /\ cert' = IF cert.issuer = 0 \/ needsRenewal
               THEN [issuer |-> held[o], left |-> Validity] ELSE cert
    /\ missed' = 0
    /\ Goto(o, "mutating")
    /\ UNCHANGED <<ca, minted, bundle, held, ready, leader, timer, due, lostCA, faults>>

patchMutatingWebhookConfiguration(o) ==
    /\ pc[o] = "mutating"
    /\ bundle' = [bundle EXCEPT !["mutating"] = held[o]]
    /\ Goto(o, "validating")
    /\ UNCHANGED <<ca, minted, cert, held, ready, leader, clockVars, lostCA, faults>>

\* Faulty variant: a bundle that is set is left alone.
patchValidatingWebhookConfiguration_Once(o) ==
    /\ pc[o] = "validating"
    /\ bundle' = [bundle EXCEPT !["validating"] = IF @ = 0 THEN held[o] ELSE @]
    /\ Goto(o, "idle")
    /\ ready' = ready \cup {o} /\ EndRun(o)
    /\ UNCHANGED <<ca, minted, cert, held, leader, due, missed, lostCA, faults>>

\* The end of a run, and of the start-up.
patchValidatingWebhookConfiguration(o) ==
    /\ pc[o] = "validating"
    /\ bundle' = [bundle EXCEPT !["validating"] = held[o]]
    /\ Goto(o, "idle")
    /\ ready' = ready \cup {o} /\ EndRun(o)
    /\ UNCHANGED <<ca, minted, cert, held, leader, due, missed, lostCA, faults>>

Process(o) ==
    \/ Begin(o) \/ Lead(o) \/ LoadCA(o) \/ MintCA(o) \/ ensureWebhookCert(o)
    \/ patchMutatingWebhookConfiguration(o)
    \/ patchValidatingWebhookConfiguration(o)
-----------------------------------------------------------------------------
(* Faults, users and time *)

Fault == faults < MaxFaults /\ faults' = faults + 1

\* A call of a run fails, or meets a conflict.
CallFails(o) ==
    /\ Fault /\ pc[o] \notin {"down", "idle"}
    /\ Fail(o)
    /\ UNCHANGED <<pkiVars, held, ready, leader, lostCA>>

Crash(o) ==
    /\ Fault /\ pc[o] # "down" /\ Goto(o, "down")
    /\ ready' = ready \ {o}
    /\ \/ leader = o /\ leader' = NoOne /\ timer' = 0 /\ due' = FALSE
       \/ leader # o /\ UNCHANGED <<leader, timer, due>>
    /\ UNCHANGED <<pkiVars, held, missed, lostCA>>

\* A Secret is deleted; a manifest with an empty caBundle is applied.
Loses ==
    /\ Fault
    /\ \/ /\ ca # 0 /\ ca' = 0 /\ lostCA' = TRUE
          /\ UNCHANGED <<cert, bundle>>
       \/ /\ cert.issuer # 0 /\ cert' = NoCert
          /\ UNCHANGED <<ca, bundle, lostCA>>
       \/ /\ \E c \in Config : bundle[c] # 0 /\ bundle' = [bundle EXCEPT ![c] = 0]
          /\ UNCHANGED <<ca, cert, lostCA>>
    /\ UNCHANGED <<minted, pc, held, ready, leader, clockVars>>

\* A unit of time: the certificate ages, the ticker ticks.
Elapse ==
    /\ cert' = IF cert.issuer = 0 THEN cert ELSE [cert EXCEPT !.left = @ - 1]
    /\ timer' = IF timer = 1 THEN Interval ELSE IF timer = 0 THEN 0 ELSE timer - 1
    /\ due' = (due \/ timer = 1)
    /\ UNCHANGED <<ca, minted, bundle, pc, held, ready, leader, lostCA>>

\* There is a leader, and it has no run to begin or to end.
OnTime == leader # NoOne /\ ~ due /\ pc[leader] = "idle"

Tick == OnTime /\ Elapse /\ UNCHANGED <<missed, faults>>

LateTick == ~ OnTime /\ Fault /\ Elapse /\ missed' = missed + 1

Environment == Loses \/ Tick \/ LateTick \/ \E o \in Operator : CallFails(o) \/ Crash(o)

Next == Environment \/ \E o \in Operator : Process(o)

Spec == /\ Init /\ [][Next]_vars /\ WF_vars(Tick)
        /\ \A o \in Operator : WF_vars(Process(o))
-----------------------------------------------------------------------------
TypeOK ==
    /\ ca \in Nat /\ minted \in Nat /\ lostCA \in BOOLEAN /\ due \in BOOLEAN
    /\ cert \in [issuer : Nat, left : Int] /\ bundle \in [Config -> Nat]
    /\ pc \in [Operator -> {"down", "idle", "ca", "mint", "cert", "mutating",
                            "validating"}]
    /\ held \in [Operator -> Nat] /\ ready \subseteq Operator
    /\ leader \in ready \cup {NoOne}
    /\ timer \in 0 .. Interval /\ missed \in Nat /\ faults \in 0 .. MaxFaults

\* As long as nobody deletes the CA, all processes work with one: whoever
\* starts at the same time, crashes or renews, every certificate is signed by
\* the stored CA and no configuration trusts another.
NoDrift ==
    ~ lostCA => /\ cert.issuer \in {0, ca}
                /\ \A c \in Config : bundle[c] \in {0, ca}

\* The webhook server's certificate is renewed before it expires, as long as
\* the renewal threshold has room for the period of the ticker and for one more
\* period for each run that failed or was late: a failed run is not repeated
\* before the next tick.  Nothing in the code relates the two: the period is
\* what WEBHOOK_PKI_RECONCILE_INTERVAL says.
NeverExpires == Interval * (1 + missed) < Threshold => cert.left > 0

\* Both configurations come to trust the CA that is stored, and the
\* certificate is signed by it unless the CA was replaced; whatever was
\* deleted, overwritten by a process with an older CA, or reset.
Trusted ==
    <>[](/\ ca # 0 /\ \A c \in Config : bundle[c] = ca
         /\ cert.issuer # 0 /\ (cert.issuer = ca \/ lostCA))

\* "Prevents cert/caBundle drift in long-running operator processes."
DriftEnds == <>[](\A c \in Config : bundle[c] = cert.issuer)
=============================================================================
