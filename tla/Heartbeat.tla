------------------------------ MODULE Heartbeat ------------------------------
(***************************************************************************)
(* The timers at the two ends of an established control channel.  The      *)
(* server (ControlChannel::run of server.rs) writes a HeartBeat when it has *)
(* had nothing else to write for heartbeat_interval; the client            *)
(* (ControlChannel::run and VisitorControlChannel::run of client.rs) gives  *)
(* the channel up when no command has come for heartbeat_timeout.  Each    *)
(* turn of either loop starts its timer anew; 0 switches a timer off.      *)
(*                                                                         *)
(* The definitions that every module has carry the prefix HB, so that      *)
(* ChannelTaskProofs can extend this module and ConnectionPool.            *)
(*                                                                         *)
(* Time passes in ticks.  A timer that is due fires before the next tick.  *)
(* A command is read, and its write returns, within MaxDelay of the moment *)
(* the server decides to write it.                                         *)
(***************************************************************************)
EXTENDS Naturals, Sequences

CONSTANTS
  Intervals,   \* values of heartbeat_interval
  Timeouts,    \* values of heartbeat_timeout
  MaxDelay,    \* the longest a working connection takes over a command
  MaxInFlight, \* bound: commands on the connection
  Horizon      \* bound: ticks the server stays in one place

ASSUME HeartbeatAssumption ==
  /\ Intervals \subseteq Nat
  /\ Timeouts \subseteq Nat
  /\ MaxDelay \in Nat
  /\ MaxInFlight \in Nat
  /\ Horizon \in Nat

VARIABLES
  heartbeat_interval,  \* the server's configuration
  heartbeat_timeout,   \* the client's configuration
  server,   \* in its select, writing a command, or silent for good
  since,    \* ticks the server has been there
  wire,     \* ages of the commands on the connection, oldest first
  receiver, \* the client: in its select, or returned with "Heartbeat timed out"
  quiet     \* ticks since the client's loop last turned

config == <<heartbeat_interval, heartbeat_timeout>>
timers == <<config, server, since, wire, receiver, quiet>>

HBTypeOK ==
  /\ heartbeat_interval \in Intervals
  /\ heartbeat_timeout \in Timeouts
  /\ server \in {"select", "write", "silent"}
  /\ since \in Nat
  /\ wire \in Seq(0..MaxDelay)
  /\ receiver \in {"select", "timed_out"}
  /\ quiet \in Nat

\* The Ack has been written and read; both loops start.
HBInit ==
  /\ heartbeat_interval \in Intervals
  /\ heartbeat_timeout \in Timeouts
  /\ server = "select"
  /\ since = 0
  /\ wire = <<>>
  /\ receiver = "select"
  /\ quiet = 0

\* write_control_cmd begins; the client may read the command before it returns.
BeginWrite ==
  /\ server' = "write"
  /\ since' = 0
  /\ wire' = Append(wire, 0)
  /\ UNCHANGED <<config, receiver, quiet>>

\* A request for a data channel wins the select.
CreateDataChannel ==
  /\ server = "select"
  /\ Len(wire) < MaxInFlight
  /\ BeginWrite

\* The server's sleep is over.
SendHeartBeat ==
  /\ server = "select"
  /\ heartbeat_interval # 0 /\ since = heartbeat_interval
  /\ BeginWrite

\* The write returns and the loop turns.
EndWrite ==
  /\ server = "write"
  /\ server' = "select"
  /\ since' = 0
  /\ UNCHANGED <<config, wire, receiver, quiet>>

\* The server or the network stops; what is on the wire still arrives.
FallSilent ==
  /\ server # "silent"
  /\ server' = "silent"
  /\ since' = 0
  /\ UNCHANGED <<config, wire, receiver, quiet>>

\* Mutant: a HeartBeat does not restart the client's timer.
ReadControlCmdNoRestart ==
  /\ receiver = "select"
  /\ wire # <<>>
  /\ wire' = Tail(wire)
  /\ UNCHANGED <<config, server, since, receiver, quiet>>

\* read_control_cmd returns a command.
ReadControlCmd ==
  /\ receiver = "select"
  /\ wire # <<>>
  /\ wire' = Tail(wire)
  /\ quiet' = 0
  /\ UNCHANGED <<config, server, since, receiver>>

\* Mutant: the loop goes on after a timeout.
TimeOutContinues ==
  /\ receiver = "select"
  /\ heartbeat_timeout # 0 /\ quiet = heartbeat_timeout
  /\ quiet' = 0
  /\ UNCHANGED <<config, server, since, wire, receiver>>

\* The client's sleep is over.
TimeOut ==
  /\ receiver = "select"
  /\ heartbeat_timeout # 0 /\ quiet = heartbeat_timeout
  /\ receiver' = "timed_out"
  /\ UNCHANGED <<config, server, since, wire, quiet>>

\* Nothing that is due is left undone when time passes.
Due ==
  \/ /\ server = "select"
     /\ heartbeat_interval # 0 /\ since >= heartbeat_interval
  \/ server = "write" /\ since >= MaxDelay
  \/ wire # <<>> /\ wire[1] >= MaxDelay
  \/ heartbeat_timeout # 0 /\ quiet >= heartbeat_timeout

Tick ==
  /\ receiver = "select"
  /\ since < Horizon
  /\ ~Due
  /\ since' = since + 1
  /\ quiet' = quiet + 1
  /\ wire' = [i \in DOMAIN wire |-> wire[i] + 1]
  /\ UNCHANGED <<config, server, receiver>>

HBNext ==
  \/ CreateDataChannel \/ SendHeartBeat \/ EndWrite \/ FallSilent
  \/ ReadControlCmd \/ TimeOut \/ Tick

HBSpec == HBInit /\ [][HBNext]_timers
-----------------------------------------------------------------------------
(* Properties *)

\* A client never gives up a server that is there, if its timeout leaves room
\* for the interval, the write that delays the start of the server's next
\* sleep, and the delivery.  The defaults, 30 and 40 seconds, do so for
\* delays below 5 seconds; a timeout just above the interval does not.
NoFalseTimeout ==
  /\ heartbeat_interval # 0
  /\ heartbeat_interval + 2 * MaxDelay < heartbeat_timeout
  => (receiver = "timed_out" => server = "silent")

\* A client with a timeout does not wait for a silent server for longer than
\* the timeout after the last command that was on its way.
SilenceNoticed ==
  /\ heartbeat_timeout # 0
  /\ receiver = "select"
  /\ server = "silent"
  => since <= MaxDelay + heartbeat_timeout
=============================================================================
