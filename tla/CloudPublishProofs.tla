------------------------- MODULE CloudPublishProofs -------------------------
(***************************************************************************)
(* Proofs about the nRF91 publisher, for any number of power failures.     *)
(***************************************************************************)
EXTENDS CloudPublish, TLAPS

\* The semaphore stays binary, and the stages, the key store and what is held are
\* the ones the code knows.
THEOREM TypeCorrect == Spec => []TypeOK
<1>1. Init => TypeOK
  <2>1. 0 \in 0..MaxRestarts
    BY CloudAssumption
  <2>2. QED
    BY <2>1, Zenon DEF Init, TypeOK
<1>2. TypeOK /\ [Next]_vars => TypeOK'
  <2>1. SUFFICES ASSUME TypeOK, [Next]_vars PROVE TypeOK'
    OBVIOUS
  <2>2. CASE ModemInit \/ CertExists \/ CertCompare \/ CertDelete \/ CertWrite
    BY <2>1, <2>2 DEF ModemInit, CertExists, CertCompare, CertDelete, CertWrite, Goto, TypeOK,
                      Provisioning, Stages
  <2>3. CASE Connect \/ Take
    BY <2>1, <2>3 DEF Connect, Take, Give, Goto, TypeOK, Provisioning, Stages
  <2>4. CASE Encode \/ Lookup \/ OpenSocket \/ SetOptions \/ Dial \/ Send
    BY <2>1, <2>4 DEF Encode, Lookup, OpenSocket, SetOptions, Dial, Send, Proceed, CleanedUp,
                      Goto, TypeOK, Provisioning, Stages
  <2>5. CASE Timeout \/ CmdPublish
    BY <2>1, <2>5 DEF Timeout, CmdPublish, Give, TypeOK
  <2>6. CASE Restart
    <3>1. restarts' \in 0..MaxRestarts
      BY <2>1, <2>6, CloudAssumption DEF Restart, TypeOK
    <3>2. QED
      BY <2>1, <2>6, <3>1, Zenon DEF Restart, TypeOK
  <2>7. CASE UNCHANGED vars
    BY <2>1, <2>7 DEF vars, TypeOK
  <2>8. QED
    BY <2>1, <2>2, <2>3, <2>4, <2>5, <2>6, <2>7 DEF Next, Main
<1>3. QED
  BY <1>1, <1>2, PTL DEF Spec

\* What the main thread holds at each stage of cloud_publish: the strengthening
\* of NothingHeld, which alone does not say what a failing stage must give back.
Due ==
  [stage \in Stages |->
     CASE stage = "encode" -> {}
       [] stage = "lookup" -> {"msg"}
       [] stage = "open" -> {"msg", "addr"}
       [] stage \in {"options", "dial"} -> {"msg", "addr", "fd"}
       [] stage = "request" -> {"msg", "fd"}]

HeldIsDue == held = IF pc \in Stages THEN Due[pc] ELSE {}

\* The steps of the main thread outside cloud_publish leave what it holds alone.
LEMMA StartHoldsNothing ==
  ASSUME HeldIsDue,
         ModemInit \/ CertExists \/ CertCompare \/ CertDelete \/ CertWrite \/ Connect \/ Take
  PROVE  HeldIsDue'
<1>1. pc \notin Stages /\ (pc' = "encode" \/ pc' \notin Stages)
  BY DEF ModemInit, CertExists, CertCompare, CertDelete, CertWrite, Connect, Take, Goto, Stages
<1>2. held' = held
  BY DEF ModemInit, CertExists, CertCompare, CertDelete, CertWrite, Connect, Take
<1>3. QED
  BY <1>1, <1>2 DEF HeldIsDue, Due, Stages

\* Each stage of cloud_publish, by success or failure, holds what its successor
\* expects.
LEMMA StagesHandOn ==
  ASSUME HeldIsDue,
         Encode \/ Lookup \/ OpenSocket \/ SetOptions \/ Dial \/ Send
  PROVE  HeldIsDue'
<1>1. CASE Encode
  BY <1>1 DEF Encode, Proceed, Goto, HeldIsDue, Due, Stages
<1>2. CASE Lookup
  <2>1. held = {"msg"}
    BY <1>2 DEF Lookup, Proceed, Goto, HeldIsDue, Due, Stages
  <2>2. QED
    BY <1>2, <2>1 DEF Lookup, Proceed, Goto, HeldIsDue, Due, Stages
<1>3. CASE OpenSocket
  <2>1. held = {"msg", "addr"}
    BY <1>3 DEF OpenSocket, Proceed, Goto, HeldIsDue, Due, Stages
  <2>2. QED
    BY <1>3, <2>1 DEF OpenSocket, CleanedUp, Proceed, Goto, HeldIsDue, Due, Stages
<1>4. CASE SetOptions
  <2>1. held = {"msg", "addr", "fd"}
    BY <1>4 DEF SetOptions, Proceed, Goto, HeldIsDue, Due, Stages
  <2>2. QED
    BY <1>4, <2>1 DEF SetOptions, CleanedUp, Proceed, Goto, HeldIsDue, Due, Stages
<1>5. CASE Dial
  <2>1. held = {"msg", "addr", "fd"}
    BY <1>5 DEF Dial, Proceed, Goto, HeldIsDue, Due, Stages
  <2>2. QED
    BY <1>5, <2>1 DEF Dial, CleanedUp, Proceed, Goto, HeldIsDue, Due, Stages
<1>6. CASE Send
  <2>1. held = {"msg", "fd"}
    BY <1>6 DEF Send, Proceed, Goto, HeldIsDue, Due, Stages
  <2>2. QED
    BY <1>6, <2>1 DEF Send, Proceed, Goto, HeldIsDue, Due, Stages
<1>7. QED
  BY <1>1, <1>2, <1>3, <1>4, <1>5, <1>6

\* cloud.c:152-157 and the ends of cloud_publish: whichever call fails, the main
\* thread comes back to its loop without a socket, an address list or a message.
THEOREM NothingLeaks == Spec => []NothingHeld
<1>1. Init => HeldIsDue
  BY DEF Init, HeldIsDue, Stages
<1>2. HeldIsDue /\ [Next]_vars => HeldIsDue'
  <2>1. SUFFICES ASSUME HeldIsDue, [Next]_vars PROVE HeldIsDue'
    OBVIOUS
  <2>2. CASE Main
    BY <2>1, <2>2, StartHoldsNothing, StagesHandOn DEF Main
  <2>3. CASE Timeout \/ CmdPublish
    BY <2>1, <2>3 DEF Timeout, CmdPublish, HeldIsDue
  <2>4. CASE Restart
    BY <2>4 DEF Restart, HeldIsDue, Stages
  <2>5. CASE UNCHANGED vars
    BY <2>1, <2>5 DEF vars, HeldIsDue
  <2>6. QED
    BY <2>1, <2>2, <2>3, <2>4, <2>5 DEF Next
<1>3. HeldIsDue => NothingHeld
  BY DEF HeldIsDue, NothingHeld, Stages
<1>4. QED
  BY <1>1, <1>2, <1>3, PTL DEF Spec

\* cert_provision: wherever the power failed in earlier boots, between deleting
\* the old certificate and writing the new one included, a boot in which no key
\* store call fails has the built-in certificate when it connects.
THEOREM CertificateInPlace == Spec => []Provisioned
<1>1. Init => Provisioned
  BY DEF Init, Provisioned
<1>2. Provisioned /\ [Next]_vars => Provisioned'
  <2>1. SUFFICES ASSUME Provisioned, [Next]_vars PROVE Provisioned'
    OBVIOUS
  <2>2. CASE ModemInit
    BY <2>2 DEF ModemInit, Goto, Provisioned, Provisioning
  <2>3. CASE CertExists
    BY <2>3 DEF CertExists, Goto, Provisioned, Provisioning
  <2>4. CASE CertCompare
    BY <2>4 DEF CertCompare, Goto, Provisioned, Provisioning
  <2>5. CASE CertDelete
    BY <2>5 DEF CertDelete, Goto, Provisioned, Provisioning
  <2>6. CASE CertWrite
    <3>1. cert' = "ours" \/ keyFault' = TRUE
      BY <2>6 DEF CertWrite
    <3>2. QED
      BY <3>1 DEF Provisioned
  <2>7. CASE Connect
    BY <2>1, <2>7 DEF Connect, Goto, Provisioned, Provisioning
  <2>8. CASE Take \/ Encode \/ Lookup \/ OpenSocket \/ SetOptions \/ Dial \/ Send
    <3>1. UNCHANGED <<cert, keyFault>>
      BY <2>8 DEF Take, Encode, Lookup, OpenSocket, SetOptions, Dial, Send, Proceed
    <3>2. pc \in {"wait"} \cup Stages
      BY <2>8 DEF Take, Encode, Lookup, OpenSocket, SetOptions, Dial, Send, Proceed, Goto,
                  Stages
    <3>3. QED
      BY <2>1, <3>1, <3>2 DEF Provisioned, Provisioning, Stages
  <2>9. CASE Timeout \/ CmdPublish
    BY <2>1, <2>9 DEF Timeout, CmdPublish, Provisioned
  <2>10. CASE Restart
    BY <2>10 DEF Restart, Provisioned
  <2>11. CASE UNCHANGED vars
    BY <2>1, <2>11 DEF vars, Provisioned
  <2>12. QED
    BY <2>1, <2>2, <2>3, <2>4, <2>5, <2>6, <2>7, <2>8, <2>9, <2>10, <2>11 DEF Next, Main
<1>3. QED
  BY <1>1, <1>2, PTL DEF Spec

\* thread_sem is taken before a publish begins and given while it is under way,
\* so no request made meanwhile is lost, however many are made.
THEOREM NoRequestForgotten == Spec => []RequestKept
<1>1. Init => RequestKept
  BY DEF Init, RequestKept
<1>2. RequestKept /\ [Next]_vars => RequestKept'
  <2>1. SUFFICES ASSUME RequestKept, [Next]_vars PROVE RequestKept'
    OBVIOUS
  <2>2. CASE ModemInit \/ CertExists \/ CertCompare \/ CertDelete \/ CertWrite
    BY <2>1, <2>2 DEF ModemInit, CertExists, CertCompare, CertDelete, CertWrite, RequestKept
  <2>3. CASE Connect
    BY <2>1, <2>3 DEF Connect, Give, RequestKept
  <2>4. CASE Take
    BY <2>4 DEF Take, RequestKept
  <2>5. CASE Encode \/ Lookup \/ OpenSocket \/ SetOptions \/ Dial \/ Send
    BY <2>1, <2>5 DEF Encode, Lookup, OpenSocket, SetOptions, Dial, Send, Proceed, RequestKept
  <2>6. CASE Timeout \/ CmdPublish
    BY <2>6 DEF Timeout, CmdPublish, Give, RequestKept
  <2>7. CASE Restart
    BY <2>7 DEF Restart, RequestKept
  <2>8. CASE UNCHANGED vars
    BY <2>1, <2>8 DEF vars, RequestKept
  <2>9. QED
    BY <2>1, <2>2, <2>3, <2>4, <2>5, <2>6, <2>7, <2>8 DEF Next, Main
<1>3. QED
  BY <1>1, <1>2, PTL DEF Spec
=============================================================================
