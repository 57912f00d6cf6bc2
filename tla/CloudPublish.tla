---------------------------- MODULE CloudPublish ----------------------------
(***************************************************************************)
(* The nRF91 sample (apps/siot-nrf/src/main.c, cloud/cloud.c): the main    *)
(* thread provisions a CA certificate, connects, and then publishes once   *)
(* for each time it takes a binary semaphore, which a timer and the shell  *)
(* command `publish` give.                                                 *)
(*                                                                         *)
(* The modem with its key store, the network and the timer are external;   *)
(* every call to them may fail, and power may fail between any two.  A     *)
(* handshake succeeds only with the certificate built into the program.    *)
(***************************************************************************)
EXTENDS Integers

CONSTANT MaxRestarts  \* bound: power failures

ASSUME CloudAssumption == MaxRestarts \in Nat

VARIABLES
  cert,     \* the modem's key store: "none", "other" or "ours"
  pc,       \* where the main thread is
  held,     \* what cloud_publish and socket_setup must give back
  sem,      \* thread_sem
  timer,    \* whether the timer has been started
  asked,    \* history: a publish was asked for and none has begun since
  keyFault, \* history: a key store call of this boot failed
  restarts  \* bounded counter

vars == <<cert, pc, held, sem, timer, asked, keyFault, restarts>>

Provisioning == {"exists", "compare", "delete", "write"}
Stages == {"encode", "lookup", "open", "options", "dial", "request"}

Init ==
  /\ cert \in {"none", "other", "ours"}
  /\ pc = "modem" /\ held = {} /\ sem = 0
  /\ timer = FALSE /\ asked = FALSE /\ keyFault = FALSE
  /\ restarts = 0

Goto(from, to) == pc = from /\ pc' = to

\* Mutant: the semaphore counts.
GiveCounts == sem' = sem + 1 /\ asked' = TRUE

\* k_sem_give of a semaphore of limit 1.
Give == sem' = 1 /\ asked' = TRUE

-----------------------------------------------------------------------------
(* main, up to its loop *)

\* nrf_modem_lib_init; without it main returns.
ModemInit ==
  /\ Goto("modem", "exists") \/ Goto("modem", "stopped")
  /\ UNCHANGED <<cert, held, sem, timer, asked, keyFault, restarts>>

\* cert_provision: modem_key_mgmt_exists.
CertExists ==
  /\ \/ Goto("exists", IF cert = "none" THEN "write" ELSE "compare") /\ UNCHANGED keyFault
     \/ Goto("exists", "connect") /\ keyFault' = TRUE
  /\ UNCHANGED <<cert, held, sem, timer, asked, restarts>>

\* modem_key_mgmt_cmp: an error counts as a mismatch.
CertCompare ==
  /\ \/ Goto("compare", IF cert = "ours" THEN "connect" ELSE "delete") /\ UNCHANGED keyFault
     \/ Goto("compare", "delete") /\ keyFault' = TRUE
  /\ UNCHANGED <<cert, held, sem, timer, asked, restarts>>

\* Mutant: a deleted certificate is taken for a provisioned one.
CertDeleteOnly ==
  /\ \/ Goto("delete", "connect") /\ cert' = "none" /\ UNCHANGED keyFault
     \/ Goto("delete", "write") /\ UNCHANGED cert /\ keyFault' = TRUE
  /\ UNCHANGED <<held, sem, timer, asked, restarts>>

\* modem_key_mgmt_delete: a failure is logged.
CertDelete ==
  /\ Goto("delete", "write")
  /\ \/ cert' = "none" /\ UNCHANGED keyFault
     \/ UNCHANGED cert /\ keyFault' = TRUE
  /\ UNCHANGED <<held, sem, timer, asked, restarts>>

\* modem_key_mgmt_write: cloud_init logs a failure and reports success.
CertWrite ==
  /\ Goto("write", "connect")
  /\ \/ cert' = "ours" /\ UNCHANGED keyFault
     \/ UNCHANGED cert /\ keyFault' = TRUE
  /\ UNCHANGED <<held, sem, timer, asked, restarts>>

\* lte_lc_connect, then the timer and an instant publish.
Connect ==
  /\ \/ Goto("connect", "wait") /\ Give /\ timer' = TRUE
     \/ Goto("connect", "stopped") /\ UNCHANGED <<sem, asked, timer>>
  /\ UNCHANGED <<cert, held, keyFault, restarts>>

-----------------------------------------------------------------------------
(* The loop, with cloud_publish and socket_setup *)

Take ==
  /\ Goto("wait", "encode")
  /\ sem = 1
  /\ sem' = 0 /\ asked' = FALSE
  /\ UNCHANGED <<cert, held, timer, keyFault, restarts>>

\* A stage that succeeds, holding more or less than before.
Proceed(from, to, now) ==
  /\ Goto(from, to)
  /\ held' = now
  /\ UNCHANGED <<cert, sem, timer, asked, keyFault, restarts>>

Encode == Proceed("encode", "lookup", {"msg"}) \/ Proceed("encode", "wait", {})

\* getaddrinfo: on failure cloud_publish frees the message.
Lookup ==
  \/ Proceed("lookup", "open", held \cup {"addr"})
  \/ Proceed("lookup", "wait", held \ {"msg"})

\* clean_up frees the addresses and closes a socket that was opened.
CleanedUp == held \ {"addr", "fd", "msg"}

OpenSocket ==
  \/ Proceed("open", "options", held \cup {"fd"})
  \/ Proceed("open", "wait", CleanedUp)

\* Timeouts and tls_setup.
SetOptions == Proceed("options", "dial", held) \/ Proceed("options", "wait", CleanedUp)

\* Mutant: the socket stays open when connect fails.
DialLeaks ==
  \/ cert = "ours" /\ Proceed("dial", "request", held \ {"addr"})
  \/ Proceed("dial", "wait", held \ {"addr", "msg"})

\* connect: the addresses are freed either way.
Dial ==
  \/ cert = "ours" /\ Proceed("dial", "request", held \ {"addr"})
  \/ Proceed("dial", "wait", CleanedUp)

\* Mutants: a request that failed is tried again at once, for ever; the semaphore
\* is reset when a publish is done.
SendRetries ==
  \/ Proceed("request", "wait", held \ {"fd", "msg"})
  \/ Proceed("request", "lookup", {"msg"})

SendAndReset ==
  /\ Goto("request", "wait")
  /\ held' = held \ {"fd", "msg"}
  /\ sem' = 0
  /\ UNCHANGED <<cert, timer, asked, keyFault, restarts>>

\* http_client_req, with a 3 s timeout; then close and free, sent or not.
Send == Proceed("request", "wait", held \ {"fd", "msg"})

Main ==
  \/ ModemInit \/ CertExists \/ CertCompare \/ CertDelete \/ CertWrite \/ Connect
  \/ Take \/ Encode \/ Lookup \/ OpenSocket \/ SetOptions \/ Dial \/ Send

-----------------------------------------------------------------------------
\* timeout_handler, every CONFIG_DEFAULT_DELAY minutes.
Timeout ==
  /\ timer
  /\ Give
  /\ UNCHANGED <<cert, pc, held, timer, keyFault, restarts>>

\* The shell runs from boot.
CmdPublish ==
  /\ Give
  /\ UNCHANGED <<cert, pc, held, timer, keyFault, restarts>>

\* Power fails; only the modem's key store is kept.
Restart ==
  /\ restarts < MaxRestarts
  /\ restarts' = restarts + 1
  /\ pc' = "modem" /\ held' = {} /\ sem' = 0
  /\ timer' = FALSE /\ asked' = FALSE /\ keyFault' = FALSE
  /\ UNCHANGED cert

Next == Main \/ Timeout \/ CmdPublish \/ Restart

\* The main thread runs: every call it makes has a timeout.
Spec == Init /\ [][Next]_vars /\ WF_vars(Main)

-----------------------------------------------------------------------------
TypeOK ==
  /\ cert \in {"none", "other", "ours"}
  /\ pc \in {"modem", "connect", "stopped", "wait"} \cup Provisioning \cup Stages
  /\ held \subseteq {"msg", "addr", "fd"}
  /\ sem \in {0, 1}
  /\ timer \in BOOLEAN /\ asked \in BOOLEAN /\ keyFault \in BOOLEAN
  /\ restarts \in 0..MaxRestarts

\* Between publishes the thread holds no socket, address list or message, at
\* whichever call the last one failed: the loop can go on for years.
NothingHeld == pc = "wait" => held = {}

\* A publish asked for while another is under way is not forgotten: the
\* semaphore is taken before the publish and given in the meantime.
RequestKept == asked => sem = 1

\* Unless a key store call failed in this boot, the modem has the certificate by
\* the time it connects, wherever the power failed in earlier boots.
Provisioned ==
  pc \notin {"modem", "stopped"} \cup Provisioning /\ ~keyFault => cert = "ours"

\* What is asked for is attempted, unless main has given up or the power fails.
RequestServed == asked ~> ~asked \/ pc = "stopped"
=============================================================================
