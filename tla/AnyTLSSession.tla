---------------------------- MODULE AnyTLSSession ----------------------------
(***************************************************************************)
(* AnyTLS multiplexing (patches/anytls/session): sessions between a client *)
(* with its pool of idle sessions (client.go) and a server, and the        *)
(* streams they carry (session.go, stream.go).  Both ends run the same     *)
(* Session code; an end is a pair <<session, side>>.                       *)
(*                                                                         *)
(* One action is one critical section, or one frame written.  Contents of  *)
(* data, padding and heartbeats (frames without effect on a stream) are    *)
(* left out.  Session.Close runs on as steps of its own after its first,   *)
(* whoever called it.                                                      *)
(***************************************************************************)
EXTENDS Integers, Sequences, FiniteSets

CONSTANTS
  Sessions,   \* sequence numbers a client gives its sessions
  MaxSid,     \* bound: streams of one session
  Callers,    \* goroutines that call CreateStream
  Window,     \* frames after which a connection takes no more for a while
  Versions    \* what clients announce: 0 no settings at all, 1, or 2

ASSUME SessionsAssumption ==
  Sessions \subseteq Nat /\ MaxSid \in Nat /\ Window \in Nat /\ Versions \subseteq 0..2

Ends == Sessions \X {"client", "server"}
Client(s) == <<s, "client">>
Server(s) == <<s, "server">>
Peer(e) == IF e[2] = "client" THEN Server(e[1]) ELSE Client(e[1])
Sids == 1..MaxSid

VARIABLES
  client,     \* Client: open, dying (dieCancel) or closed (map taken)
  pool,       \* idleSession
  known,      \* Client.sessions
  doomed,     \* open sessions somebody has yet to call Close on
  caller,     \* each caller: where it is, its session and stream
  die,        \* each end: none, open, or how far Close has come
  wire,       \* frames on their way to each end
  recv,       \* what the end's recvLoop is handling
  streams,    \* Session.streams: sids in the map
  st,         \* each Stream of an end: open, closed or how far closing is
  version,    \* peerVersion
  said,       \* the version the client's settings announce
  settled,    \* receivedSettingsFromClient
  kept,       \* the client's write buffer, and whether it holds back
  buffering,
  watch,      \* synDone: a SYN watcher runs
  next,       \* streamId
  handler     \* the server's goroutine for each stream

poolVars == <<client, pool, known, doomed>>
sideVars == <<version, said, settled, watch, next, handler>>
bufVars  == <<kept, buffering>>
vars == <<poolVars, caller, die, wire, recv, streams, st, sideVars, bufVars>>

Frame(cmd, i) == [cmd |-> cmd, sid |-> i]
Waiting == Frame("wait", 0)
Ending  == Frame("end", 0)
Done    == Frame("done", 0)
Nobody  == [pc |-> "idle", s |-> 0, i |-> 0]

\* The frames about a session, and those about one of its streams.
Frames == [cmd : {"SET", "SRV", "ALERT"}, sid : {0}]
          \cup [cmd : {"SYN", "PSH", "FIN", "ACK", "NACK"}, sid : Sids]

TypeOK ==
  /\ client \in {"open", "dying", "closed"}
  /\ pool \subseteq Sessions /\ known \subseteq Sessions
  /\ doomed \subseteq Sessions
  /\ caller \in [Callers ->
       [pc : {"idle", "get", "dial", "open", "syn", "insert", "using", "asked"},
        s : Sessions \cup {0}, i : 0..MaxSid]]
  /\ die \in [Ends -> {"none", "open", "hook", "streams", "closed"}]
  /\ wire \in [Ends -> Seq(Frames)] /\ kept \in [Sessions -> Seq(Frames)]
  /\ recv \in [Ends -> Frames \cup {Waiting, Ending, Done}]
  /\ streams \in [Ends -> SUBSET Sids]
  /\ st \in [Ends -> [Sids -> {"none", "open", "hookL", "hookN", "putL",
                               "putN", "fin", "forget", "closed"}]]
  /\ version \in [Ends -> 0..2] /\ said \in [Sessions -> 0..2]
  /\ settled \in [Sessions -> BOOLEAN] /\ buffering \in [Sessions -> BOOLEAN]
  /\ watch \in [Sessions -> BOOLEAN] /\ next \in [Sessions -> 0..MaxSid]
  /\ handler \in [Sessions -> [Sids -> {"none", "dest", "serve", "copy",
                                        "done"}]]

Init ==
  /\ client = "open" /\ pool = {} /\ known = {} /\ doomed = {}
  /\ caller = [k \in Callers |-> Nobody]
  /\ die = [e \in Ends |-> "none"]
  /\ wire = [e \in Ends |-> <<>>]
  /\ recv = [e \in Ends |-> Done]
  /\ streams = [e \in Ends |-> {}]
  /\ st = [e \in Ends |-> [i \in Sids |-> "none"]]
  /\ version = [e \in Ends |-> 0]
  /\ said = [s \in Sessions |-> 0]
  /\ settled = [s \in Sessions |-> FALSE]
  /\ kept = [s \in Sessions |-> <<>>]
  /\ buffering = [s \in Sessions |-> FALSE]
  /\ watch = [s \in Sessions |-> FALSE]
  /\ next = [s \in Sessions |-> 0]
  /\ handler = [s \in Sessions |-> [i \in Sids |-> "none"]]

IsClosed(e) == die[e] # "open"

-----------------------------------------------------------------------------
(* Session.Close: dieOnce, dieHook, the streams, the connection. *)

Dying(D) == [e \in Ends |-> IF e \in D /\ die[e] = "open"
                            THEN IF e[2] = "client" THEN "hook" ELSE "streams"
                            ELSE die[e]]

(* The client's dieHook takes the session out of pool and map; a watcher   *)
(* or another Close that comes later does nothing any more.                *)
RunDieHook(s) ==
  /\ die[Client(s)] = "hook"
  /\ pool' = pool \ {s}
  /\ known' = known \ {s}
  /\ doomed' = doomed \ {s}
  /\ watch' = [watch EXCEPT ![s] = FALSE]
  /\ die' = [die EXCEPT ![Client(s)] = "streams"]
  /\ UNCHANGED <<client, caller, wire, recv, streams, st, version, said,
                 settled, next, handler, bufVars>>

(* closeLocally on each, whose hooks see a closed session; conn.Close. The *)
(* server's goroutines find stream and connection closed, and return.      *)
CloseStreams(e) ==
  /\ die[e] = "streams"
  /\ st' = [st EXCEPT ![e] = [i \in Sids |->
              IF i \in streams[e] /\ @[i] = "open" THEN "closed" ELSE @[i]]]
  /\ streams' = [streams EXCEPT ![e] = {}]
  /\ die' = [die EXCEPT ![e] = "closed"]
  /\ wire' = [wire EXCEPT ![e] = <<>>]
  /\ handler' = IF e[2] = "client" THEN handler
                ELSE [handler EXCEPT ![e[1]] = [i \in Sids |->
                        IF @[i] = "none" THEN "none" ELSE "done"]]
  /\ UNCHANGED <<poolVars, caller, recv, version, said, settled, watch, next,
                 bufVars>>

CloseRuns(e) ==
  \/ e[2] = "client" /\ RunDieHook(e[1])
  \/ CloseStreams(e)

(* writeControlFrame and writeConn.  A frame to a peer that has closed is   *)
(* lost; the client's first frames wait in its buffer for the next one.    *)
Put(e, fs) ==
  IF die[Peer(e)] = "closed" THEN wire ELSE [wire EXCEPT ![Peer(e)] = @ \o fs]

Held(e) == e[2] = "client" /\ buffering[e[1]]
Kept(e) == IF e[2] = "client" THEN kept[e[1]] ELSE <<>>

Write(e, f) ==
  /\ die[e] # "closed" /\ Len(wire[Peer(e)]) < Window
  /\ wire' = IF Held(e) THEN wire ELSE Put(e, Append(Kept(e), f))
  /\ kept' = [s \in Sessions |->
                IF Client(s) # e THEN kept[s]
                ELSE IF Held(e) THEN Append(kept[s], f) ELSE <<>>]
  /\ UNCHANGED die

(* A failed control frame (the connection, or its 5 s) closes the session. *)
WriteFails(e) ==
  /\ die' = Dying({e})
  /\ UNCHANGED <<wire, kept>>

-----------------------------------------------------------------------------
(* Client.CreateStream. *)

At(k, pc) == caller[k].pc = pc
Goto(k, pc, s, i) == caller' = [caller EXCEPT ![k] =
                                  [pc |-> pc, s |-> s, i |-> i]]
Return(k) == caller' = [caller EXCEPT ![k] = Nobody]

CreateStream(k) ==
  /\ At(k, "idle") /\ client = "open"
  /\ Goto(k, "get", 0, 0)
  /\ UNCHANGED <<poolVars, die, wire, recv, streams, st, sideVars, bufVars>>

(* The newest idle session comes first. *)
GetIdleSession(k) ==
  /\ At(k, "get")
  /\ IF pool = {}
     THEN Goto(k, "dial", 0, 0) /\ UNCHANGED pool
     ELSE \E s \in pool : /\ \A r \in pool : r <= s
                          /\ Goto(k, "open", s, 0) /\ pool' = pool \ {s}
  /\ UNCHANGED <<client, known, doomed, die, wire, recv, streams, st, sideVars,
                 bufVars>>

(* createSession: dial, register, Run.  The settings stay in the buffer. *)
Dial(k, s, v) ==
  /\ At(k, "dial")
  /\ die[Client(s)] = "none" /\ \A r \in Sessions : r < s => die[Client(r)] # "none"
  /\ Goto(k, "open", s, 0)
  /\ known' = known \cup {s}
  /\ die' = [die EXCEPT ![Client(s)] = "open", ![Server(s)] = "open"]
  /\ recv' = [recv EXCEPT ![Client(s)] = Waiting, ![Server(s)] = Waiting]
  /\ said' = [said EXCEPT ![s] = v]
  /\ kept' = [kept EXCEPT ![s] = IF v = 0 THEN <<>> ELSE <<Frame("SET", 0)>>]
  /\ buffering' = [buffering EXCEPT ![s] = TRUE]
  /\ UNCHANGED <<client, pool, doomed, wire, streams, st, version, settled,
                 watch, next, handler>>

DialFails(k) ==
  /\ At(k, "dial") /\ Return(k)
  /\ UNCHANGED <<poolVars, die, wire, recv, streams, st, sideVars, bufVars>>

(* openStream up to the SYN: from the second stream on, a version 2 peer   *)
(* is given 3 s to answer it.                                              *)
OpenStream(k) ==
  LET s == caller[k].s  i == next[s] + 1  e == Client(s)
  IN  /\ At(k, "open") /\ ~IsClosed(e) /\ i <= MaxSid
      /\ next' = [next EXCEPT ![s] = i]
      /\ st' = [st EXCEPT ![e][i] = "open"]
      /\ watch' = IF i >= 2 /\ version[e] >= 2
                  THEN [watch EXCEPT ![s] = TRUE] ELSE watch
      /\ Goto(k, "syn", s, i)
      /\ UNCHANGED <<poolVars, die, wire, recv, streams, version, said,
                     settled, handler, bufVars>>

OpenStreamFails(k) ==
  /\ At(k, "open") /\ IsClosed(Client(caller[k].s))
  /\ Return(k)
  /\ UNCHANGED <<poolVars, die, wire, recv, streams, st, sideVars, bufVars>>

SendSyn(k) ==
  LET s == caller[k].s  i == caller[k].i  e == Client(s)
  IN  /\ At(k, "syn")
      /\ Write(e, Frame("SYN", i))
      /\ buffering' = [buffering EXCEPT ![s] = FALSE]
      /\ Goto(k, "insert", s, i)
      /\ UNCHANGED <<poolVars, recv, streams, st, sideVars>>

SendSynFails(k) ==
  LET s == caller[k].s  e == Client(s)
  IN  /\ At(k, "syn") /\ ~buffering[s]
      /\ WriteFails(e)
      /\ st' = [st EXCEPT ![e][caller[k].i] = "closed"]
      /\ Return(k)
      /\ UNCHANGED <<poolVars, recv, streams, sideVars, buffering>>

(* Mutation: Close has emptied the map, and the stream goes in after all. *)
InsertUnchecked(k) ==
  LET s == caller[k].s  i == caller[k].i
  IN  /\ At(k, "insert")
      /\ streams' = [streams EXCEPT ![Client(s)] = @ \cup {i}]
      /\ Goto(k, "using", s, i)
      /\ UNCHANGED <<poolVars, die, wire, recv, st, sideVars, bufVars>>

Insert(k) ==
  LET s == caller[k].s  i == caller[k].i  e == Client(s)
  IN  /\ At(k, "insert")
      /\ IF IsClosed(e)
         THEN Return(k) /\ st' = [st EXCEPT ![e][i] = "closed"]
                        /\ UNCHANGED streams
         ELSE Goto(k, "using", s, i) /\ UNCHANGED st
              /\ streams' = [streams EXCEPT ![e] = @ \cup {i}]
      /\ UNCHANGED <<poolVars, die, wire, recv, sideVars, bufVars>>

(* The caller sends the destination, once, and closes when it likes. *)
WriteAddress(k) ==
  LET s == caller[k].s  i == caller[k].i  e == Client(s)
  IN  /\ At(k, "using") /\ st[e][i] = "open"
      /\ Write(e, Frame("PSH", i))
      /\ Goto(k, "asked", s, i)
      /\ UNCHANGED <<poolVars, recv, streams, st, sideVars, buffering>>

Closing(e) == IF e[2] = "client" THEN "hookN" ELSE "fin"

CloseStream(k) ==
  LET s == caller[k].s  i == caller[k].i  e == Client(s)
  IN  /\ caller[k].pc \in {"using", "asked"}
      /\ st' = IF st[e][i] = "open" THEN [st EXCEPT ![e][i] = Closing(e)]
               ELSE st
      /\ Return(k)
      /\ UNCHANGED <<poolVars, die, wire, recv, streams, sideVars, bufVars>>

-----------------------------------------------------------------------------
(* The rest of a stream's closeWithError (N) or closeLocally (L). *)

AfterHook(phase) == IF phase \in {"hookN", "putN"} THEN "fin" ELSE "closed"

(* Mutation: the hook does not ask whether the Client is closed. *)
StreamHookPutsAlways(s, i) ==
  LET e == Client(s)  phase == st[e][i]
  IN  /\ phase \in {"hookL", "hookN"}
      /\ st' = [st EXCEPT ![e][i] =
                  IF IsClosed(e) THEN AfterHook(phase)
                  ELSE IF phase = "hookL" THEN "putL" ELSE "putN"]
      /\ UNCHANGED <<poolVars, caller, die, wire, recv, streams, sideVars,
                     bufVars>>

(* CreateStream's hook: to the pool, unless session or client is closed. *)
StreamHook(s, i) ==
  LET e == Client(s)  phase == st[e][i]
  IN  /\ phase \in {"hookL", "hookN"}
      /\ st' = [st EXCEPT ![e][i] =
                  IF IsClosed(e) \/ client # "open" THEN AfterHook(phase)
                  ELSE IF phase = "hookL" THEN "putL" ELSE "putN"]
      /\ doomed' = IF ~IsClosed(e) /\ client # "open" THEN doomed \cup {s}
                   ELSE doomed
      /\ UNCHANGED <<client, pool, known, caller, die, wire, recv, streams,
                     sideVars, bufVars>>

PutBack(s, i) ==
  /\ st[Client(s)][i] \in {"putL", "putN"}
  /\ pool' = pool \cup {s}
  /\ st' = [st EXCEPT ![Client(s)][i] = AfterHook(@)]
  /\ UNCHANGED <<client, known, doomed, caller, die, wire, recv, streams,
                 sideVars, bufVars>>

(* streamClosed: FIN, then out of the map, where a stream that is not open *)
(* makes no difference; a closed session needs neither.                    *)
SendFin(e, i) ==
  /\ st[e][i] = "fin"
  /\ st' = [st EXCEPT ![e][i] = "closed"]
  /\ IF IsClosed(e) THEN UNCHANGED <<die, wire, kept, streams>>
     ELSE /\ streams' = [streams EXCEPT ![e] = @ \ {i}]
          /\ Write(e, Frame("FIN", i)) \/ WriteFails(e)
  /\ UNCHANGED <<poolVars, caller, recv, sideVars, buffering>>

-----------------------------------------------------------------------------
(* recvLoop.  Reading a frame and handling it is one step, except for SYN, *)
(* which may be handled after a Close that came in between.                *)

(* A read fails, or the loop is told to return; "defer s.Close()". *)
RecvEnds(e) ==
  /\ recv[e] \in {Waiting, Ending}
  /\ recv' = [recv EXCEPT ![e] = Done]
  /\ die' = Dying({e})
  /\ UNCHANGED <<poolVars, caller, wire, streams, st, sideVars, bufVars>>

Reading(e, cmd) ==
  /\ recv[e] = Waiting /\ wire[e] # <<>>
  /\ Head(wire[e]).cmd = cmd
Sid(e) == Head(wire[e]).sid
Taken(e) == wire' = [wire EXCEPT ![e] = Tail(@)]

(* The loop begins again with a look at IsClosed. *)
Handled(e) == recv' = [recv EXCEPT ![e] = IF IsClosed(e) THEN Ending
                                          ELSE Waiting]

HandleSettings(s) ==
  LET e == Server(s)
      rest == [wire EXCEPT ![e] = Tail(@)]
  IN  /\ Reading(e, "SET")
      /\ settled' = [settled EXCEPT ![s] = TRUE]
      /\ version' = IF said[s] >= 2 THEN [version EXCEPT ![e] = 2] ELSE version
      /\ \/ said[s] < 2 /\ wire' = rest /\ Handled(e) /\ UNCHANGED die
         \/ said[s] >= 2 /\ Handled(e) /\ UNCHANGED die
            /\ wire' = IF die[Peer(e)] = "closed" THEN rest
                       ELSE [rest EXCEPT ![Peer(e)] =
                               Append(@, Frame("SRV", 0))]
         \/ said[s] >= 2 /\ wire' = rest /\ die' = Dying({e})
            /\ recv' = [recv EXCEPT ![e] = Ending]
      /\ UNCHANGED <<poolVars, caller, streams, st, said, watch, next, handler,
                     bufVars>>

ReadSyn(s) ==
  LET e == Server(s)
  IN  /\ Reading(e, "SYN")
      /\ recv' = [recv EXCEPT ![e] = Head(wire[e])]
      /\ Taken(e)
      /\ UNCHANGED <<poolVars, caller, die, streams, st, sideVars, bufVars>>

(* Mutation: the stream is reported before its address has been read. *)
HandleSynServes(s) ==
  LET e == Server(s)  i == recv[e].sid
  IN  /\ recv[e].cmd = "SYN" /\ settled[s]
      /\ streams' = [streams EXCEPT ![e] = @ \cup {i}]
      /\ st' = [st EXCEPT ![e][i] = "open"]
      /\ handler' = [handler EXCEPT ![s][i] = "serve"]
      /\ Handled(e)
      /\ UNCHANGED <<poolVars, caller, die, wire, version, said, settled, watch,
                     next, bufVars>>

HandleSyn(s) ==
  LET e == Server(s)  i == recv[e].sid
  IN  /\ recv[e].cmd = "SYN" /\ settled[s]
      /\ streams' = [streams EXCEPT ![e] = @ \cup {i}]
      /\ st' = [st EXCEPT ![e][i] = "open"]
      /\ handler' = [handler EXCEPT ![s][i] = "dest"]
      /\ Handled(e)
      /\ UNCHANGED <<poolVars, caller, die, wire, version, said, settled, watch,
                     next, bufVars>>

(* "client did not send its settings": an alert, and the end. *)
RefuseSyn(s) ==
  LET e == Server(s)
  IN  /\ recv[e].cmd = "SYN" /\ ~settled[s]
      /\ Write(e, Frame("ALERT", 0)) \/ WriteFails(e)
      /\ recv' = [recv EXCEPT ![e] = Ending]
      /\ UNCHANGED <<poolVars, caller, streams, st, sideVars, buffering>>

NoStream(e, i) == i \notin streams[e] \/ st[e][i] # "open"

(* The write into the stream's pipe waits for ReadAddrPort, or is dropped. *)
Deliver(s) ==
  LET e == Server(s)  i == Sid(e)
  IN  /\ Reading(e, "PSH")
      /\ ~NoStream(e, i) => handler[s][i] = "dest"
      /\ handler' = IF NoStream(e, i) THEN handler
                    ELSE [handler EXCEPT ![s][i] = "serve"]
      /\ Taken(e) /\ Handled(e)
      /\ UNCHANGED <<poolVars, caller, die, streams, st, version, said, settled,
                     watch, next, bufVars>>

HandleSynAck(s) ==
  LET e == Client(s)  i == Sid(e)
  IN  /\ Reading(e, "ACK") \/ Reading(e, "NACK")
      /\ watch' = [watch EXCEPT ![s] = FALSE]
      /\ st' = IF Reading(e, "NACK") /\ ~NoStream(e, i)
               THEN [st EXCEPT ![e][i] = Closing(e)] ELSE st
      /\ Taken(e) /\ Handled(e)
      /\ UNCHANGED <<poolVars, caller, die, streams, version, said, settled,
                     next, handler, bufVars>>

(* Mutation: closeLocally runs its hook although the stream is closed. *)
HandleFinTwice(e) ==
  LET i == Sid(e)
  IN  /\ Reading(e, "FIN")
      /\ streams' = [streams EXCEPT ![e] = @ \ {i}]
      /\ st' = IF i \notin streams[e] THEN st
               ELSE [st EXCEPT ![e][i] =
                       IF e[2] = "client" THEN "hookL" ELSE "closed"]
      /\ Taken(e) /\ Handled(e)
      /\ UNCHANGED <<poolVars, caller, die, sideVars, bufVars>>

(* ReadAddrPort or the copying ends; a handshake is reported all the same. *)
HandleFin(e) ==
  LET i == Sid(e)
  IN  /\ Reading(e, "FIN")
      /\ handler' = IF e[2] = "server" /\ handler[e[1]][i] \in {"dest", "copy"}
                    THEN [handler EXCEPT ![e[1]][i] = "done"] ELSE handler
      /\ streams' = [streams EXCEPT ![e] = @ \ {i}]
      /\ st' = IF NoStream(e, i) THEN st
               ELSE [st EXCEPT ![e][i] =
                       IF e[2] = "client" THEN "hookL" ELSE "closed"]
      /\ Taken(e) /\ Handled(e)
      /\ UNCHANGED <<poolVars, caller, die, version, said, settled, watch,
                     next, bufVars>>

HandleServerSettings(s) ==
  LET e == Client(s)
  IN  /\ Reading(e, "SRV")
      /\ version' = [version EXCEPT ![e] = 2]
      /\ Taken(e) /\ Handled(e)
      /\ UNCHANGED <<poolVars, caller, die, streams, st, said, settled, watch,
                     next, handler, bufVars>>

HandleAlert(s) ==
  LET e == Client(s)
  IN  /\ Reading(e, "ALERT")
      /\ recv' = [recv EXCEPT ![e] = Ending]
      /\ Taken(e)
      /\ UNCHANGED <<poolVars, caller, die, streams, st, sideVars, bufVars>>

-----------------------------------------------------------------------------
(* The server's goroutine of a stream (sing-anytls service.go). *)

(* HandshakeSuccess or HandshakeFailure: told to version 2 clients only. *)
Report(s, i, verdict) ==
  LET e == Server(s)
  IN  /\ handler[s][i] = "serve"
      /\ handler' = [handler EXCEPT ![s][i] =
                       IF st[e][i] = "open" THEN "copy" ELSE "done"]
      /\ IF version[e] < 2 THEN UNCHANGED <<die, wire, kept>>
         ELSE Write(e, Frame(verdict, i)) \/ WriteFails(e)
      /\ UNCHANGED <<poolVars, caller, recv, streams, st, version, said,
                     settled, watch, next, buffering>>

HandlerCloses(s, i) ==
  LET e == Server(s)
  IN  /\ handler[s][i] = "copy" /\ st[e][i] = "open"
      /\ handler' = [handler EXCEPT ![s][i] = "done"]
      /\ st' = [st EXCEPT ![e][i] = Closing(e)]
      /\ UNCHANGED <<poolVars, caller, die, wire, recv, streams, version, said,
                     settled, watch, next, bufVars>>

-----------------------------------------------------------------------------
(* Timers and the Client's own Close. *)

WatchExpires(s) ==
  /\ watch[s]
  /\ watch' = [watch EXCEPT ![s] = FALSE]
  /\ die' = Dying({Client(s)})
  /\ UNCHANGED <<poolVars, caller, wire, recv, streams, st, version, said,
                 settled, next, handler, bufVars>>

(* What has been idle for too long, minIdleSession aside. *)
IdleCleanup(S) ==
  /\ S # {} /\ S \subseteq pool
  /\ pool' = pool \ S
  /\ doomed' = doomed \cup {s \in S : ~IsClosed(Client(s))}
  /\ UNCHANGED <<client, known, caller, die, wire, recv, streams, st, sideVars,
                 bufVars>>

CloseDoomed(s) ==
  /\ s \in doomed
  /\ doomed' = doomed \ {s}
  /\ die' = Dying({Client(s)})
  /\ UNCHANGED <<client, pool, known, caller, wire, recv, streams, st, sideVars,
                 bufVars>>

CancelClient ==
  /\ client = "open"
  /\ client' = "dying"
  /\ UNCHANGED <<pool, known, doomed, caller, die, wire, recv, streams, st,
                 sideVars, bufVars>>

TakeSessions ==
  /\ client = "dying"
  /\ client' = "closed"
  /\ doomed' = doomed \cup {s \in known : ~IsClosed(Client(s))}
  /\ known' = {}
  /\ UNCHANGED <<pool, caller, die, wire, recv, streams, st, sideVars, bufVars>>

-----------------------------------------------------------------------------
Calls(k) ==
  \/ CreateStream(k) \/ GetIdleSession(k) \/ DialFails(k)
  \/ \E s \in Sessions, v \in Versions : Dial(k, s, v)
  \/ OpenStream(k) \/ OpenStreamFails(k) \/ SendSyn(k) \/ SendSynFails(k)
  \/ Insert(k) \/ WriteAddress(k) \/ CloseStream(k)

Handles(e) ==
  \/ HandleFin(e)
  \/ e[2] = "server" /\ (\/ HandleSettings(e[1]) \/ ReadSyn(e[1])
                         \/ HandleSyn(e[1]) \/ RefuseSyn(e[1])
                         \/ Deliver(e[1]))
  \/ e[2] = "client" /\ (HandleSynAck(e[1]) \/ HandleServerSettings(e[1])
                         \/ HandleAlert(e[1]))

Streams(e, i) ==
  \/ SendFin(e, i)
  \/ e[2] = "client" /\ (StreamHook(e[1], i) \/ PutBack(e[1], i))
  \/ e[2] = "server" /\ (\/ HandlerCloses(e[1], i)
                         \/ Report(e[1], i, "ACK") \/ Report(e[1], i, "NACK"))

Next ==
  \/ \E k \in Callers : Calls(k)
  \/ \E e \in Ends :
       Handles(e) \/ RecvEnds(e) \/ CloseRuns(e)
       \/ \E i \in Sids : Streams(e, i)
  \/ \E s \in Sessions : WatchExpires(s) \/ CloseDoomed(s)
  \/ \E S \in SUBSET pool : IdleCleanup(S)
  \/ CancelClient \/ TakeSessions

Spec == Init /\ [][Next]_vars

-----------------------------------------------------------------------------
(* A session of the client carries one stream at a time: while it is idle, *)
(* or somebody's, no second caller gets it (getIdleSession, dieHook).      *)
SessionIsExclusive ==
  \A s \in Sessions :
    LET open == {i \in Sids : st[Client(s)][i] = "open"}
        held == {k \in Callers : At(k, "open") /\ caller[k].s = s}
        back == {i \in Sids : st[Client(s)][i] \in
                                {"hookL", "hookN", "putL", "putN"}}
    IN  Cardinality(open) + Cardinality(held) + Cardinality(back)
          + Cardinality(pool \cap {s}) <= 1

(* The client's recvLoop never meets a frame for a stream that openStream  *)
(* has announced and not yet put into the map: it would drop the answer.   *)
NoAnswerIsLost ==
  \A s \in Sessions : \A n \in DOMAIN wire[Client(s)] :
    LET f == wire[Client(s)][n]
    IN  f.sid # 0 /\ st[Client(s)][f.sid] = "open"
          => f.sid \in streams[Client(s)] \/ IsClosed(Client(s))

(* A client session that is closed holds no open stream, although a stream *)
(* is announced before it is put into the map.                             *)
ClosedSessionHoldsNone ==
  \A s \in Sessions : die[Client(s)] = "closed" =>
    \A i \in streams[Client(s)] : st[Client(s)][i] # "open"

(* After Client.Close no session is left idle: each is closed, about to    *)
(* be, or still has the stream whose end will close it.                    *)
ClosedClientKeepsNoSession ==
  client = "closed" =>
    \A s \in Sessions : die[Client(s)] = "open" =>
      \/ s \in doomed
      \/ \E k \in Callers : caller[k].pc \in {"open", "syn", "insert"}
                            /\ caller[k].s = s
      \/ \E i \in Sids : st[Client(s)][i] \in {"open", "hookL", "hookN"}

(* session.go: "Close is used to close the session and all streams."       *)
CloseClosesStreams ==
  \A e \in Ends : die[e] = "closed" /\ recv[e] = Done =>
    \A i \in streams[e] : st[e][i] # "open"
=============================================================================
