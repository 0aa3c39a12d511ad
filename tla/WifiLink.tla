------------------------------ MODULE WifiLink ------------------------------
(***************************************************************************)
(* The RW009 WiFi adapter (device/peripheral/wifi/rw009) under its two     *)
(* users: the WiFi task of board_main, which initialises it, serves it and *)
(* asks it to join a network, again and again, and lwIP's thread, which    *)
(* sends frames.                                                           *)
(*                                                                         *)
(* The WiFi task has the highest priority: the sender runs while it        *)
(* delays, and may be stopped between any two of its own steps. A transfer *)
(* on the bus is made with interrupts off (RW009_SPI_CPULOCK_ENABLE):      *)
(* neither task goes on before it ends. It waits twice for the module's    *)
(* busy pin, without a limit, and takes one packet from the module, if it  *)
(* has one. The module itself is external: it may be busy for as long as   *)
(* it likes, drop commands, refuse to join, lose the network and answer    *)
(* late or never.                                                          *)
(***************************************************************************)
EXTENDS Naturals, Sequences

CONSTANTS
  RW009_INIT_RETRY,   \* how often the initialisation is tried again
  MaxWaiting          \* bound: packets the module holds for the host

ASSUME WifiAssumption == RW009_INIT_RETRY \in Nat /\ MaxWaiting \in Nat

VARIABLES
  wnic,         \* DEV_WNIC_INFO and init_try
  expired,      \* whether init_timer and conn_timer have passed
  to_send,      \* rw009_to_send: the module has announced a packet
  int_enabled,  \* its interrupt is enabled
  module,       \* the module: packets for the host, a command, joined, busy pin
  transfer,     \* the part of rw009_xfer that is under way, and its command
  wifi,         \* where the WiFi task is
  sender        \* where low_level_output is

vars == <<wnic, expired, to_send, int_enabled, module, transfer, wifi, sender>>

Commands == {"init", "join"}

Init ==
  /\ wnic = [init_status |-> "not initialized", conn_status |-> "not connected",
             busy |-> FALSE, power |-> FALSE, init_try |-> 0]
  /\ expired = [init |-> FALSE, conn |-> FALSE]
  /\ to_send = FALSE
  /\ int_enabled = FALSE
  /\ module = [waiting |-> <<>>, command |-> "none", joined |-> FALSE, busy |-> FALSE]
  /\ transfer = [at |-> "none", command |-> "none"]
  /\ wifi = "init"
  /\ sender = "idle"

-----------------------------------------------------------------------------
(* Transfers                                                               *)

(* What a packet changes in the driver's state w.                          *)
Answered(w) ==
  /\ w.init_status = "successful"
  /\ w.conn_status \in {"during", "connected"}

cmd_resp_handler(p, w) ==
  CASE p = "initialized" /\ w.init_status = "during" ->
         [w EXCEPT !.init_status = "successful", !.init_try = 0]
    [] p = "joined" /\ Answered(w) ->
         [w EXCEPT !.busy = FALSE, !.conn_status = "connected"]
    [] p = "refused" /\ Answered(w) ->
         [w EXCEPT !.busy = FALSE,
                   !.conn_status = IF @ = "connected" THEN @ ELSE "not connected"]
    [] p = "lost" /\ Answered(w) /\ w.conn_status = "connected" ->
         [w EXCEPT !.busy = FALSE, !.conn_status = "not connected"]
    [] OTHER -> w

\* While a transfer is under way no task runs.
Unlocked == transfer.at = "none"

\* rw009_xfer up to its first wait
Begin(command) ==
  /\ transfer' = [at |-> "request", command |-> command]
  /\ int_enabled' = FALSE

\* ... to its second one
Request ==
  /\ transfer.at = "request" /\ ~module.busy
  /\ transfer' = [transfer EXCEPT !.at = "response"]
  /\ UNCHANGED <<wnic, expired, to_send, int_enabled, module, wifi, sender>>

\* What the caller does when the transfer has left the driver's state w: the
\* sender while the WiFi task delays, else the WiFi task.
AfterUncounted(w) ==                                 \* slip: init_try++ is missing
  /\ wnic' = IF wifi = "init" THEN [w EXCEPT !.power = TRUE] ELSE w
  /\ to_send' = (to_send /\ wifi # "period")
  /\ wifi' = [init |-> "period", period |-> "timers", timers |-> "connect",
              connect |-> "delay", delay |-> "delay"][wifi]
  /\ sender' = IF wifi = "delay" THEN "idle" ELSE sender

After(w) ==
  /\ wnic' = CASE wifi = "init" -> [w EXCEPT !.power = TRUE]
               [] wifi = "timers" -> [w EXCEPT !.init_try = @ + 1]
               [] OTHER -> w
  /\ to_send' = (to_send /\ wifi # "period")
  /\ wifi' = [init |-> "period", period |-> "timers", timers |-> "connect",
              connect |-> "delay", delay |-> "delay"][wifi]
  /\ sender' = IF wifi = "delay" THEN "idle" ELSE sender

\* ... and to its end. With a wrong magic in the response it is given up and
\* the interrupt stays disabled. Otherwise the module may or may not be
\* ready to take what the host sends.
Response ==
  /\ transfer.at = "response" /\ ~module.busy
  /\ transfer' = [at |-> "none", command |-> "none"]
  /\ \/ After(wnic) /\ UNCHANGED <<int_enabled, module>>
     \/ /\ int_enabled' = TRUE
        /\ \E taken \in {module.command} \union (Commands \intersect {transfer.command}) :
             IF module.waiting = <<>>
             THEN After(wnic) /\ module' = [module EXCEPT !.command = taken]
             ELSE /\ After(cmd_resp_handler(Head(module.waiting), wnic))
                  /\ module' = [module EXCEPT !.command = taken, !.waiting = Tail(@)]
  /\ UNCHANGED expired

rw009_xfer == Request \/ Response

rw009_reset(m) == [m EXCEPT !.waiting = <<>>, !.command = "none", !.joined = FALSE]

\* The interrupt of the module (external: it is raised when it has packets)
rw009_isr ==
  /\ int_enabled /\ module.waiting # <<>>
  /\ to_send' = TRUE
  /\ int_enabled' = FALSE
  /\ UNCHANGED <<wnic, expired, module, transfer, wifi, sender>>

-----------------------------------------------------------------------------
(* The WiFi task                                                           *)

\* When the pins or the bus cannot be opened, it returns with the status set:
\* there is no power, no command and no timer.
rw009_wnic_init ==
  /\ wifi = "init" /\ Unlocked
  /\ wnic' = [wnic EXCEPT !.init_status = "during"]
  /\ \/ /\ wifi' = "period"
        /\ UNCHANGED <<expired, int_enabled, module, transfer>>
     \/ /\ expired' = [expired EXCEPT !.init = FALSE]
        /\ module' = rw009_reset(module)
        /\ Begin("init")
        /\ UNCHANGED wifi
  /\ UNCHANGED <<to_send, sender>>

\* rw009_period_process: what the module has announced, then what took too long
Fetch ==
  /\ wifi = "period" /\ Unlocked
  /\ IF wnic.power /\ to_send
     THEN Begin("none") /\ UNCHANGED wifi
     ELSE /\ wifi' = IF wnic.power THEN "timers" ELSE "connect"
          /\ UNCHANGED <<int_enabled, transfer>>
  /\ UNCHANGED <<wnic, expired, to_send, module, sender>>

InitTimedOut == wnic.init_status = "during" /\ expired.init
ConnTimedOut == wnic.conn_status = "during" /\ expired.conn

Retry ==
  /\ wifi = "timers" /\ Unlocked
  /\ InitTimedOut /\ wnic.init_try < RW009_INIT_RETRY
  /\ expired' = [expired EXCEPT !.init = FALSE]
  /\ module' = rw009_reset(module)
  /\ Begin("init")
  /\ UNCHANGED <<wnic, to_send, wifi, sender>>

\* with on_init_fail, lwip_wifi_on_init_fail
GiveUp ==
  /\ wifi = "timers" /\ Unlocked
  /\ InitTimedOut /\ wnic.init_try >= RW009_INIT_RETRY
  /\ wifi' = "connect"
  /\ wnic' = [wnic EXCEPT !.init_try = 0, !.init_status = "failed", !.power = FALSE,
                          !.conn_status = "not connected"]
  /\ UNCHANGED <<expired, to_send, int_enabled, module, transfer, sender>>

\* the connection's timer (there is no attempt to join
\* while the initialisation is under way)
EndAttempt ==
  /\ wifi = "timers" /\ Unlocked /\ ~InitTimedOut
  /\ wifi' = "connect"
  /\ wnic' = IF ConnTimedOut THEN [wnic EXCEPT !.conn_status = "not connected"] ELSE wnic
  /\ UNCHANGED <<expired, to_send, int_enabled, module, transfer, sender>>

\* One network: connected, there is nothing to do.
MayJoin ==
  /\ wnic.init_status = "successful" /\ ~wnic.busy
  /\ wnic.conn_status = "not connected"

rw009_wnic_connect ==
  /\ wifi = "connect" /\ Unlocked
  /\ \/ /\ MayJoin
        /\ wnic' = [wnic EXCEPT !.busy = TRUE, !.conn_status = "during"]
        /\ expired' = [expired EXCEPT !.conn = FALSE]
        /\ Begin("join")
        /\ UNCHANGED wifi
     \/ /\ ~MayJoin
        /\ wifi' = "delay"
        /\ UNCHANGED <<wnic, expired, int_enabled, transfer>>
  /\ UNCHANGED <<to_send, module, sender>>

vTaskDelay ==
  /\ wifi = "delay" /\ Unlocked
  /\ wifi' = "period"
  /\ UNCHANGED <<wnic, expired, to_send, int_enabled, module, transfer, sender>>

WifiTask ==
  \/ rw009_wnic_init \/ Fetch \/ Retry \/ GiveUp \/ EndAttempt \/ rw009_wnic_connect
  \/ vTaskDelay

-----------------------------------------------------------------------------
(* lwIP's thread: low_level_output                                         *)

rw009_poll_conn_status ==
  /\ wifi = "delay" /\ sender = "idle"
  /\ wnic.init_status = "successful"
  /\ sender' = IF wnic.busy THEN IF wnic.conn_status = "connected" THEN "commit" ELSE "idle"
               ELSE IF wnic.conn_status = "connected" THEN "commit" ELSE "write"
  /\ UNCHANGED <<wnic, expired, to_send, int_enabled, module, transfer, wifi>>

\* and its last assignment: conn_status becomes E_OK, which is 0
WriteStatus ==
  /\ wifi = "delay" /\ sender = "write"
  /\ wnic' = [wnic EXCEPT !.conn_status = "0"]
  /\ sender' = "idle"
  /\ UNCHANGED <<expired, to_send, int_enabled, module, transfer, wifi>>

rw009_commit_tx ==
  /\ wifi = "delay" /\ sender = "commit" /\ Unlocked
  /\ Begin("none")
  /\ UNCHANGED <<wnic, expired, to_send, module, wifi, sender>>

Sender == rw009_poll_conn_status \/ WriteStatus \/ rw009_commit_tx

-----------------------------------------------------------------------------
(* The module and the time                                                 *)

Puts(packet, joined) ==
  /\ Len(module.waiting) < MaxWaiting
  /\ module' = [module EXCEPT !.waiting = Append(@, packet), !.command = "none",
                              !.joined = joined]

Module ==
  /\ \/ module.command = "init" /\ Puts("initialized", FALSE)
     \/ module.command = "join" /\ (Puts("joined", TRUE) \/ Puts("refused", FALSE))
     \/ module.command = "none" /\ module.joined /\ Puts("lost", FALSE)
     \/ module' = [module EXCEPT !.busy = ~@]
  /\ UNCHANGED <<wnic, expired, to_send, int_enabled, transfer, wifi, sender>>

TimePasses ==
  /\ \E timer \in {"init", "conn"} :
        ~expired[timer] /\ expired' = [expired EXCEPT ![timer] = TRUE]
  /\ UNCHANGED <<wnic, to_send, int_enabled, module, transfer, wifi, sender>>

Next == WifiTask \/ rw009_xfer \/ Sender \/ rw009_isr \/ Module \/ TimePasses

(* The processor works on, the WiFi task has the highest priority, and     *)
(* time does not stop. Nothing is assumed of the module or of the sender.  *)
Spec     == Init /\ [][Next]_vars
FairSpec == Spec /\ WF_vars(WifiTask) /\ WF_vars(rw009_xfer) /\ WF_vars(TimePasses)

-----------------------------------------------------------------------------
\* A transfer never ends: its wait for the module, with interrupts off,
\* has no limit. Nothing else runs on the processor any more.
Hangs == <>[]~Unlocked

(* Unless the module's busy pin hangs the processor in a transfer, neither *)
(* an initialisation that has got as far as its command (rw009_wnic_init   *)
(* has opened its ports and turned the power on) nor an attempt to join    *)
(* stays under way: both end with an answer or with a timer, however often *)
(* transfers are given up and whatever the module does not answer or       *)
(* answers too late. And after an attempt that the module has answered, or *)
(* a lost network, there is another attempt, unless the sender has written *)
(* the status first. (An initialisation whose ports did not open stays     *)
(* under way for ever. An attempt that its timer has ended leaves the      *)
(* adapter busy: no attempt follows, and no property here says so.)        *)
EndsInTime ==
  \/ Hangs
  \/ /\ wnic.init_status = "during" /\ wnic.power
          ~> wnic.init_status \in {"successful", "failed"}
     /\ wnic.conn_status = "during" ~> wnic.conn_status # "during"
     /\ wnic.init_status = "successful" /\ wnic.conn_status = "not connected" /\ ~wnic.busy
          ~> wnic.conn_status # "not connected"
=============================================================================
