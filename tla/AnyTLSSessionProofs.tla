------------------------- MODULE AnyTLSSessionProofs -------------------------
(***************************************************************************)
(* The safety of AnyTLS multiplexing for any number of sessions, streams   *)
(* and callers, any window and any versions: SessionIsExclusive,           *)
(* NoAnswerIsLost, ClosedSessionHoldsNone and ClosedClientKeepsNoSession.  *)
(* The inductive invariant follows a session of the client through its     *)
(* owners (the pool, a caller, a stream and its end), says which callers   *)
(* still have to put their stream into the map, and that the server writes *)
(* about a stream only after the client has put it there.                  *)
(***************************************************************************)
EXTENDS AnyTLSSession, Functions, FiniteSetTheorems, SequenceTheorems, TLAPS

(* The inductive invariant *)

Busy(s, i)  == st[Client(s)][i] \in {"open", "hookL", "hookN", "putL", "putN"}
Holds(k, s) == At(k, "open") /\ caller[k].s = s
Owns(k)     == caller[k].pc \in {"syn", "insert", "using", "asked"}

(* The pool, one caller or one stream: never two of them. *)
OneOwner ==
  \A s \in Sessions :
    /\ \A i, j \in Sids : Busy(s, i) /\ Busy(s, j) => i = j
    /\ \A k, l \in Callers : Holds(k, s) /\ Holds(l, s) => k = l
    /\ \A k \in Callers, i \in Sids : ~(Holds(k, s) /\ Busy(s, i))
    /\ s \in pool => /\ \A i \in Sids : ~Busy(s, i)
                     /\ \A k \in Callers : ~Holds(k, s)

(* Nobody has a session before it is dialled, or a stream before its turn. *)
Fresh ==
  \A s \in Sessions :
    /\ die[Client(s)] = "none" =>
         next[s] = 0 /\ s \notin pool /\ \A k \in Callers : ~Holds(k, s)
    /\ \A i \in Sids : i > next[s] => /\ st[Client(s)][i] = "none"
                                      /\ i \notin streams[Client(s)]

(* An open stream is in the map, unless the session has been closed. *)
Mapped(s, i) ==
  /\ i <= next[s]
  /\ st[Client(s)][i] = "open" =>
       i \in streams[Client(s)] \/ IsClosed(Client(s))

(* A stream announced and not yet in the map is open, and its caller's. *)
Announced ==
  \A k \in Callers :
    LET s == caller[k].s  i == caller[k].i
    IN  /\ At(k, "open") => s \in Sessions
        /\ Owns(k) => s \in Sessions /\ i \in 1..next[s]
        /\ caller[k].pc \in {"syn", "insert"} =>
             st[Client(s)][i] = "open" /\ i \notin streams[Client(s)]
        /\ caller[k].pc \in {"using", "asked"} => Mapped(s, i)
        /\ \A l \in Callers :
             Owns(k) /\ Owns(l) /\ caller[l].s = s /\ caller[l].i = i => k = l

MapsEmptied ==
  \A s \in Sessions : die[Client(s)] = "closed" => streams[Client(s)] = {}

(* The server has, or is about to have, the destination of the stream, or  *)
(* has told the client something about it.                                 *)
Asked(s, i) ==
  \/ Frame("PSH", i) \in Range(wire[Server(s)]) \cup Range(kept[s])
  \/ handler[s][i] \in {"serve", "copy"}
Told(s, i) ==
  \/ st[Server(s)][i] = "fin"
  \/ \E f \in Range(wire[Client(s)]) : f.sid = i
AnswersFollow ==
  \A s \in Sessions, i \in Sids : Asked(s, i) \/ Told(s, i) => Mapped(s, i)

(* A closed Client has seen every open session, or leaves it to its owner. *)
InCustody ==
  /\ client # "closed" =>
       \A s \in Sessions : die[Client(s)] = "open" => s \in known
  /\ ClosedClientKeepsNoSession

SessionInv ==
  /\ TypeOK
  /\ OneOwner
  /\ Fresh
  /\ Announced
  /\ MapsEmptied
  /\ AnswersFollow
  /\ InCustody
-----------------------------------------------------------------------------
(* The two ends of a session, and the frames between them *)

LEMMA EndsAre ==
  /\ \A s \in Sessions :
       /\ Client(s) \in Ends /\ Client(s)[1] = s /\ Client(s)[2] = "client"
       /\ Server(s) \in Ends /\ Server(s)[1] = s /\ Server(s)[2] = "server"
       /\ Peer(Client(s)) = Server(s) /\ Peer(Server(s)) = Client(s)
  /\ \A s, r \in Sessions : /\ Client(s) # Server(r)
                            /\ s # r => Client(s) # Client(r) /\ Server(s) # Server(r)
  /\ \A e \in Ends : /\ e[1] \in Sessions
                     /\ e[2] = "client" => e = Client(e[1])
                     /\ e[2] # "client" => e = Server(e[1]) /\ e[2] = "server"
BY DEF Ends, Client, Server, Peer

LEMMA EndsSplit ==
  ASSUME NEW e \in Ends
  PROVE  \E s \in Sessions : e = Client(s) \/ e = Server(s)
BY EndsAre

LEMMA RangeOfAppend ==
  ASSUME NEW S, NEW q \in Seq(S), NEW f \in S
  PROVE  Append(q, f) \in Seq(S) /\ Range(Append(q, f)) = Range(q) \cup {f}
<1>1. /\ Append(q, f) \in Seq(S) /\ Len(Append(q, f)) = Len(q) + 1
      /\ \A i \in 1..Len(q) : Append(q, f)[i] = q[i]
      /\ Append(q, f)[Len(q) + 1] = f
  BY AppendProperties
<1>2. DOMAIN q = 1..Len(q) /\ DOMAIN Append(q, f) = 1..(Len(q) + 1) /\ Len(q) \in Nat
  BY <1>1, LenProperties
<1>3. \A i \in 1..(Len(q) + 1) : i \in 1..Len(q) \/ i = Len(q) + 1
  BY <1>2
<1>4. Len(q) + 1 \in DOMAIN Append(q, f) /\ DOMAIN q \subseteq DOMAIN Append(q, f)
  BY <1>2
<1> QED BY <1>1, <1>2, <1>3, <1>4 DEF Range

LEMMA RangeOfConcat ==
  ASSUME NEW S, NEW q \in Seq(S), NEW r \in Seq(S)
  PROVE  q \o r \in Seq(S) /\ Range(q \o r) \subseteq Range(q) \cup Range(r)
<1>1. /\ q \o r \in Seq(S) /\ Len(q \o r) = Len(q) + Len(r)
      /\ \A i \in 1..(Len(q) + Len(r)) :
           (q \o r)[i] = IF i <= Len(q) THEN q[i] ELSE r[i - Len(q)]
  BY ConcatProperties
<1>2. /\ DOMAIN q = 1..Len(q) /\ DOMAIN r = 1..Len(r)
      /\ DOMAIN (q \o r) = 1..(Len(q) + Len(r)) /\ Len(q) \in Nat /\ Len(r) \in Nat
  BY <1>1, LenProperties
<1>3. \A i \in 1..(Len(q) + Len(r)) :
        IF i <= Len(q) THEN i \in 1..Len(q) ELSE i - Len(q) \in 1..Len(r)
  BY <1>2
<1> QED BY <1>1, <1>2, <1>3 DEF Range

LEMMA RangeOfTail ==
  ASSUME NEW S, NEW q \in Seq(S), q # << >>
  PROVE  /\ Head(q) \in S /\ Head(q) \in Range(q)
         /\ Tail(q) \in Seq(S) /\ Range(Tail(q)) \subseteq Range(q)
<1>1. /\ Head(q) = q[1] /\ Tail(q) \in Seq(S) /\ Len(Tail(q)) = Len(q) - 1
      /\ \A i \in 1..Len(Tail(q)) : Tail(q)[i] = q[i + 1]
      /\ Head(q) \in S
  BY HeadTailProperties
<1>2. /\ DOMAIN q = 1..Len(q) /\ DOMAIN Tail(q) = 1..Len(Tail(q))
      /\ Len(q) \in Nat \ {0}
  BY <1>1, EmptySeq, LenProperties
<1>3. \A i \in 1..Len(Tail(q)) : i + 1 \in 1..Len(q)
  BY <1>1, <1>2
<1>4. 1 \in DOMAIN q
  BY <1>2
<1> QED BY <1>1, <1>2, <1>3, <1>4 DEF Range

(* Every frame is of a known kind. *)
LEMMA FramesAre ==
  /\ \A f \in Frames : f = Frame(f.cmd, f.sid) /\ f.sid \in 0..MaxSid
  /\ \A f \in Frames : f.cmd \in {"SYN", "PSH", "FIN", "ACK", "NACK"} => f.sid \in Sids
  /\ \A i \in Sids, c \in {"SYN", "PSH", "FIN", "ACK", "NACK"} : Frame(c, i) \in Frames
  /\ \A c \in {"SET", "SRV", "ALERT"} : Frame(c, 0) \in Frames
  /\ \A i \in Sids : Frame("PSH", i).sid = i
  /\ \A c, i : Frame(c, i).cmd = c /\ Frame(c, i).sid = i
BY SessionsAssumption DEF Frames, Frame, Sids

(* Waiting, Ending and Done are no frames. *)
LEMMA RecvIs ==
  ASSUME NEW r \in Frames \cup {Waiting, Ending, Done}, r.cmd = "SYN"
  PROVE  r \in Frames /\ r.sid \in Sids
BY DEF Frames, Waiting, Ending, Done, Frame

(* No end but e changes; none is opened, and no client's end has emptied   *)
(* its map.                                                                *)
Closes(e) ==
  /\ die' \in [Ends -> {"none", "open", "hook", "streams", "closed"}]
  /\ \A x \in Ends : /\ x # e => die'[x] = die[x]
                     /\ die'[x] = "open" => die[x] = "open"
                     /\ die'[x] = "none" <=> die[x] = "none"
                     /\ x[2] = "client" => (die'[x] = "closed" <=> die[x] = "closed")

LEMMA DyingCloses ==
  ASSUME TypeOK, NEW e \in Ends
  PROVE  /\ UNCHANGED die => Closes(e)
         /\ die' = Dying({e}) => Closes(e) /\ die'[e] # "open"
<1>1. die \in [Ends -> {"none", "open", "hook", "streams", "closed"}]
  BY DEF TypeOK
<1>2. UNCHANGED die => Closes(e)
  BY <1>1 DEF Closes
<1>3. ASSUME die' = Dying({e}) PROVE Closes(e) /\ die'[e] # "open"
  BY <1>1, <1>3 DEF Closes, Dying
<1> QED BY <1>2, <1>3

LEMMA PutIs ==
  ASSUME TypeOK, NEW e \in Ends, Peer(e) \in Ends, NEW q \in Seq(Frames)
  PROVE  /\ Put(e, q) \in [Ends -> Seq(Frames)]
         /\ \A x \in Ends : x # Peer(e) => Put(e, q)[x] = wire[x]
         /\ Range(Put(e, q)[Peer(e)]) \subseteq Range(wire[Peer(e)]) \cup Range(q)
<1>1. wire \in [Ends -> Seq(Frames)] /\ wire[Peer(e)] \in Seq(Frames)
  BY DEF TypeOK
<1>2. /\ wire[Peer(e)] \o q \in Seq(Frames)
      /\ Range(wire[Peer(e)] \o q) \subseteq Range(wire[Peer(e)]) \cup Range(q)
  BY <1>1, RangeOfConcat
<1> QED BY <1>1, <1>2 DEF Put

(* A frame goes to the peer, or waits in the client's buffer, or is lost. *)
LEMMA WriteIs ==
  ASSUME TypeOK, NEW e \in Ends, NEW f \in Frames, Write(e, f) \/ WriteFails(e)
  PROVE  /\ wire' \in [Ends -> Seq(Frames)] /\ kept' \in [Sessions -> Seq(Frames)]
         /\ Closes(e)
         /\ \A s \in Sessions :
              /\ Range(wire'[Server(s)]) \cup Range(kept'[s]) \subseteq
                   Range(wire[Server(s)]) \cup Range(kept[s])
                     \cup {g \in {f} : e = Client(s)}
              /\ Range(wire'[Client(s)]) \subseteq
                   Range(wire[Client(s)]) \cup {g \in {f} : e = Server(s)}
<1>1. wire \in [Ends -> Seq(Frames)] /\ kept \in [Sessions -> Seq(Frames)]
  BY DEF TypeOK
<1>2. CASE WriteFails(e)
  BY <1>1, <1>2, DyingCloses DEF WriteFails
<1>3. CASE Write(e, f)
  <2>1. Kept(e) \in Seq(Frames) /\ (e[2] = "client" => Kept(e) = kept[e[1]])
    BY <1>1, EndsAre DEF Kept
  <2>2. /\ Append(Kept(e), f) \in Seq(Frames)
        /\ Range(Append(Kept(e), f)) = Range(Kept(e)) \cup {f}
    BY <2>1, RangeOfAppend
  <2> DEFINE q == Append(Kept(e), f)
  <2>3. Peer(e) \in Ends /\ Closes(e)
    <3>1. UNCHANGED die
      BY <1>3 DEF Write
    <3>2. PICK s \in Sessions : e = Client(s) \/ e = Server(s)
      BY EndsSplit
    <3>3. Peer(e) \in Ends
      BY <3>2, EndsAre
    <3> QED BY <3>1, <3>3, DyingCloses
  <2>4. /\ Put(e, q) \in [Ends -> Seq(Frames)]
        /\ \A x \in Ends : x # Peer(e) => Put(e, q)[x] = wire[x]
        /\ Range(Put(e, q)[Peer(e)]) \subseteq Range(wire[Peer(e)]) \cup Range(q)
    BY <2>2, <2>3, PutIs
  <2>5. wire' = IF Held(e) THEN wire ELSE Put(e, q)
    BY <1>3 DEF Write
  <2>6. \A s \in Sessions :
          kept'[s] = IF Client(s) # e THEN kept[s]
                     ELSE IF Held(e) THEN Append(kept[s], f) ELSE << >>
    BY <1>3 DEF Write
  <2>7. /\ << >> \in Seq(Frames) /\ Range(<< >>) = {}
        /\ \A s \in Sessions : /\ Append(kept[s], f) \in Seq(Frames)
                               /\ Range(Append(kept[s], f)) = Range(kept[s]) \cup {f}
    <3>1. << >> \in Seq(Frames) /\ Range(<< >>) = {}
      BY DEF Range
    <3>2. ASSUME NEW s \in Sessions
          PROVE  /\ Append(kept[s], f) \in Seq(Frames)
                 /\ Range(Append(kept[s], f)) = Range(kept[s]) \cup {f}
      <4>1. kept[s] \in Seq(Frames)
        BY <1>1
      <4> QED BY <4>1, RangeOfAppend
    <3> QED BY <3>1, <3>2
  <2>8. DOMAIN kept' = Sessions /\ kept' = [s \in Sessions |-> kept'[s]]
    BY <1>3 DEF Write
  <2>9. wire' \in [Ends -> Seq(Frames)] /\ kept' \in [Sessions -> Seq(Frames)]
    BY <1>1, <2>4, <2>5, <2>6, <2>7, <2>8
  <2> HIDE DEF q
  <2>10. ASSUME NEW s \in Sessions, e = Client(s)
         PROVE  /\ Range(wire'[Server(s)]) \cup Range(kept'[s]) \subseteq
                     Range(wire[Server(s)]) \cup Range(kept[s]) \cup {f}
                /\ wire'[Client(s)] = wire[Client(s)]
    <3>1. Range(q) = Range(kept[s]) \cup {f} /\ Peer(e) = Server(s)
      BY <2>1, <2>2, <2>10, EndsAre DEF q
    <3>2. Range(wire'[Server(s)]) \subseteq Range(wire[Server(s)]) \cup Range(kept[s]) \cup {f}
      BY <2>4, <2>5, <3>1
    <3>3. Range(kept'[s]) \subseteq Range(kept[s]) \cup {f}
      BY <2>6, <2>7, <2>10
    <3>4. wire'[Client(s)] = wire[Client(s)]
      BY <2>4, <2>5, <3>1, EndsAre
    <3> QED BY <3>2, <3>3, <3>4
  <2>11. ASSUME NEW s \in Sessions, e = Server(s)
         PROVE  /\ wire'[Server(s)] = wire[Server(s)] /\ kept'[s] = kept[s]
                /\ Range(wire'[Client(s)]) \subseteq Range(wire[Client(s)]) \cup {f}
    <3>1. ~Held(e) /\ Kept(e) = << >> /\ Peer(e) = Client(s) /\ Client(s) # e
      BY <2>11, EndsAre DEF Held, Kept
    <3>2. Range(q) = {f}
      BY <2>2, <2>7, <3>1 DEF q
    <3> QED BY <2>4, <2>5, <2>6, <2>11, <3>1, <3>2, EndsAre
  <2>12. ASSUME NEW s \in Sessions, e # Client(s), e # Server(s)
         PROVE  /\ wire'[Server(s)] = wire[Server(s)] /\ kept'[s] = kept[s]
                /\ wire'[Client(s)] = wire[Client(s)]
    <3>1. Peer(e) # Client(s) /\ Peer(e) # Server(s)
      BY <2>12, EndsAre, EndsSplit
    <3> QED BY <2>4, <2>5, <2>6, <2>12, <3>1, EndsAre
  <2>13. ASSUME NEW s \in Sessions
         PROVE  /\ Range(wire'[Server(s)]) \cup Range(kept'[s]) \subseteq
                     Range(wire[Server(s)]) \cup Range(kept[s])
                       \cup {g \in {f} : e = Client(s)}
                /\ Range(wire'[Client(s)]) \subseteq
                     Range(wire[Client(s)]) \cup {g \in {f} : e = Server(s)}
    BY <2>10, <2>11, <2>12
  <2> QED BY <2>3, <2>9, <2>13
<1> QED BY <1>2, <1>3

LEMMA ServerWritesIs ==
  ASSUME TypeOK, NEW s \in Sessions, NEW f \in Frames,
         Write(Server(s), f) \/ WriteFails(Server(s))
  PROVE  /\ wire' \in [Ends -> Seq(Frames)] /\ kept' \in [Sessions -> Seq(Frames)]
         /\ Closes(Server(s))
         /\ \A r \in Sessions :
              /\ Range(wire'[Server(r)]) \cup Range(kept'[r]) \subseteq
                   Range(wire[Server(r)]) \cup Range(kept[r])
              /\ Range(wire'[Client(r)]) \subseteq
                   Range(wire[Client(r)]) \cup {g \in {f} : r = s}
<1> DEFINE e == Server(s)
<1>1. e \in Ends /\ \A r \in Sessions : e # Client(r) /\ (e = Server(r) => r = s)
  BY EndsAre
<1> HIDE DEF e
<1>2. /\ wire' \in [Ends -> Seq(Frames)] /\ kept' \in [Sessions -> Seq(Frames)]
      /\ Closes(e)
      /\ \A r \in Sessions :
           /\ Range(wire'[Server(r)]) \cup Range(kept'[r]) \subseteq
                Range(wire[Server(r)]) \cup Range(kept[r])
                  \cup {g \in {f} : e = Client(r)}
           /\ Range(wire'[Client(r)]) \subseteq
                Range(wire[Client(r)]) \cup {g \in {f} : e = Server(r)}
  <2>1. Write(e, f) \/ WriteFails(e)
    BY DEF e
  <2> QED BY <1>1, <2>1, WriteIs
<1>3. ASSUME NEW r \in Sessions
      PROVE  /\ Range(wire'[Server(r)]) \cup Range(kept'[r]) \subseteq
                  Range(wire[Server(r)]) \cup Range(kept[r])
             /\ Range(wire'[Client(r)]) \subseteq
                  Range(wire[Client(r)]) \cup {g \in {f} : r = s}
  <2>1. {g \in {f} : e = Client(r)} = {} /\ {g \in {f} : e = Server(r)} \subseteq {g \in {f} : r = s}
    BY <1>1
  <2> QED BY <1>2, <2>1
<1> QED BY <1>2, <1>3 DEF e
-----------------------------------------------------------------------------
(* Steps that leave the client's streams alone *)

Quiet(e) ==
  /\ UNCHANGED <<poolVars, caller, next>>
  /\ Closes(e)
  /\ \A s \in Sessions : /\ st'[Client(s)] = st[Client(s)]
                         /\ streams'[Client(s)] = streams[Client(s)]

LEMMA OwnersAre ==
  ASSUME TypeOK, Announced, NEW k \in Callers, Owns(k)
  PROVE  /\ caller[k].s \in Sessions /\ caller[k].i \in Sids
         /\ caller[k].i <= next[caller[k].s]
BY SessionsAssumption DEF TypeOK, Announced, Sids

LEMMA QuietKeeps ==
  ASSUME SessionInv, NEW e \in Ends, Quiet(e)
  PROVE  /\ OneOwner' /\ Fresh' /\ Announced' /\ MapsEmptied' /\ InCustody'
         /\ \A s \in Sessions, i \in Sids : Mapped(s, i) => Mapped(s, i)'
<1>1. OneOwner'
  BY DEF SessionInv, Quiet, OneOwner, Busy, Holds, At, poolVars
<1>2. Fresh'
  BY EndsAre DEF SessionInv, Quiet, Closes, Fresh, Holds, At, poolVars
<1>3. \A s \in Sessions, i \in Sids : Mapped(s, i) => Mapped(s, i)'
  BY EndsAre DEF Quiet, Closes, Mapped, IsClosed
<1>4. Announced'
  <2>1. \A k \in Callers : Owns(k) => caller[k].s \in Sessions /\ caller[k].i \in Sids
    BY OwnersAre DEF SessionInv
  <2> QED BY <1>3, <2>1 DEF SessionInv, Quiet, Announced, Owns, At
<1>5. MapsEmptied'
  BY EndsAre DEF SessionInv, Quiet, Closes, MapsEmptied
<1>6. InCustody'
  BY EndsAre DEF SessionInv, Quiet, Closes, InCustody, ClosedClientKeepsNoSession, poolVars
<1> QED BY <1>1, <1>2, <1>4, <1>5, <1>6, <1>3

(* Nothing new is asked or told about a stream of a client. *)
NoNews == \A s \in Sessions, i \in Sids : (Asked(s, i) \/ Told(s, i))' =>
                                            Asked(s, i) \/ Told(s, i)

LEMMA QuietStep ==
  ASSUME SessionInv, NEW e \in Ends, Quiet(e), NoNews, TypeOK'
  PROVE  SessionInv'
<1>1. /\ OneOwner' /\ Fresh' /\ Announced' /\ MapsEmptied' /\ InCustody'
      /\ \A s \in Sessions, i \in Sids : Mapped(s, i) => Mapped(s, i)'
  BY QuietKeeps
<1>2. AnswersFollow'
  <2>1. \A s \in Sessions, i \in Sids : Asked(s, i) \/ Told(s, i) => Mapped(s, i)
    BY DEF SessionInv, AnswersFollow
  <2>2. ASSUME NEW s \in Sessions, NEW i \in Sids, Asked(s, i)' \/ Told(s, i)'
        PROVE  Mapped(s, i)'
    <3>1. Asked(s, i) \/ Told(s, i)
      BY <2>2 DEF NoNews
    <3> QED BY <1>1, <2>1, <3>1
  <2> QED BY <2>2 DEF AnswersFollow
<1> QED BY <1>1, <1>2 DEF SessionInv

(* Reading takes the first frame off the wire; the loop goes on or ends. *)
LEMMA ReadingIs ==
  ASSUME TypeOK, NEW e \in Ends, NEW cmd, Reading(e, cmd)
  PROVE  /\ Head(wire[e]) \in Frames /\ Head(wire[e]) \in Range(wire[e])
         /\ Head(wire[e]).cmd = cmd
         /\ cmd \in {"SYN", "PSH", "FIN", "ACK", "NACK"} =>
              Sid(e) \in Sids /\ Frame(cmd, Sid(e)) \in Range(wire[e])
         /\ [wire EXCEPT ![e] = Tail(@)] \in [Ends -> Seq(Frames)]
         /\ \A x \in Ends :
              Range([wire EXCEPT ![e] = Tail(@)][x]) \subseteq Range(wire[x])
<1>1. wire \in [Ends -> Seq(Frames)] /\ wire[e] \in Seq(Frames) /\ wire[e] # << >>
  BY DEF TypeOK, Reading
<1>2. /\ Head(wire[e]) \in Frames /\ Head(wire[e]) \in Range(wire[e])
      /\ Tail(wire[e]) \in Seq(Frames) /\ Range(Tail(wire[e])) \subseteq Range(wire[e])
  BY <1>1, RangeOfTail
<1>3. Head(wire[e]).cmd = cmd
  BY DEF Reading
<1> QED BY <1>1, <1>2, <1>3, FramesAre DEF Sid

LEMMA HandledIs ==
  ASSUME TypeOK, NEW e \in Ends, Handled(e)
  PROVE  recv' \in [Ends -> Frames \cup {Waiting, Ending, Done}]
BY DEF TypeOK, Handled

LEMMA TypeTypes ==
  ASSUME TypeOK
  PROVE  /\ st \in [Ends -> [Sids -> {"none", "open", "hookL", "hookN", "putL",
                                      "putN", "fin", "forget", "closed"}]]
         /\ streams \in [Ends -> SUBSET Sids]
         /\ handler \in [Sessions -> [Sids -> {"none", "dest", "serve", "copy", "done"}]]
         /\ next \in [Sessions -> 0..MaxSid]
BY DEF TypeOK
-----------------------------------------------------------------------------
(* The server's steps, and those of either end that end a session *)

LEMMA RecvEndsStep ==
  ASSUME SessionInv, NEW e \in Ends, RecvEnds(e)
  PROVE  SessionInv'
<1>1. TypeOK
  BY DEF SessionInv
<1>2. Closes(e)
  BY <1>1, DyingCloses DEF RecvEnds
<1>3. TypeOK'
  BY <1>1, <1>2 DEF RecvEnds, TypeOK, Closes, poolVars, sideVars, bufVars
<1>4. Quiet(e)
  BY <1>2 DEF RecvEnds, Quiet, sideVars
<1>5. NoNews
  BY DEF RecvEnds, NoNews, Asked, Told, sideVars, bufVars
<1> QED BY <1>3, <1>4, <1>5, QuietStep

LEMMA HandleSettingsStep ==
  ASSUME SessionInv, NEW s \in Sessions, HandleSettings(s)
  PROVE  SessionInv'
<1> DEFINE e == Server(s)
           rest == [wire EXCEPT ![e] = Tail(@)]
<1>1. TypeOK /\ e \in Ends /\ Client(s) \in Ends /\ Peer(e) = Client(s) /\ Client(s) # e
  BY EndsAre DEF SessionInv
<1>2. /\ rest \in [Ends -> Seq(Frames)]
      /\ \A x \in Ends : Range(rest[x]) \subseteq Range(wire[x])
  BY <1>1, ReadingIs DEF HandleSettings
<1>3. Closes(e)
  BY <1>1, DyingCloses DEF HandleSettings
<1>4. Frame("SRV", 0) \in Frames /\ rest[Client(s)] \in Seq(Frames)
  BY <1>1, <1>2, FramesAre
<1>5. /\ Append(rest[Client(s)], Frame("SRV", 0)) \in Seq(Frames)
      /\ Range(Append(rest[Client(s)], Frame("SRV", 0))) =
           Range(rest[Client(s)]) \cup {Frame("SRV", 0)}
  <2> HIDE DEF rest, e
  <2> QED BY <1>4, RangeOfAppend
<1>6. \/ wire' = rest
      \/ wire' = [rest EXCEPT ![Client(s)] = Append(@, Frame("SRV", 0))]
  BY <1>1 DEF HandleSettings
<1> HIDE DEF rest
<1>7. /\ wire' \in [Ends -> Seq(Frames)]
      /\ \A x \in Ends : Range(wire'[x]) \subseteq Range(wire[x]) \cup {Frame("SRV", 0)}
  BY <1>1, <1>2, <1>5, <1>6
<1>8. recv' \in [Ends -> Frames \cup {Waiting, Ending, Done}]
  BY <1>1, HandledIs DEF HandleSettings, TypeOK
<1>9. TypeOK'
  BY <1>1, <1>3, <1>7, <1>8 DEF HandleSettings, TypeOK, Closes, poolVars, bufVars
<1>10. Quiet(e)
  BY <1>3 DEF HandleSettings, Quiet
<1>11. NoNews
  <2>1. Frame("SRV", 0).sid = 0 /\ \A i \in Sids : i # 0 /\ Frame("SRV", 0) # Frame("PSH", i)
    BY SessionsAssumption DEF Frame, Sids
  <2> QED BY <1>7, <2>1, EndsAre DEF HandleSettings, NoNews, Asked, Told, bufVars
<1> QED BY <1>1, <1>9, <1>10, <1>11, QuietStep

LEMMA ReadSynStep ==
  ASSUME SessionInv, NEW s \in Sessions, ReadSyn(s)
  PROVE  SessionInv'
<1> DEFINE e == Server(s)
<1>1. TypeOK /\ e \in Ends /\ Reading(e, "SYN")
  BY EndsAre DEF SessionInv, ReadSyn
<1>2. /\ wire' \in [Ends -> Seq(Frames)] /\ Head(wire[e]) \in Frames
      /\ \A x \in Ends : Range(wire'[x]) \subseteq Range(wire[x])
  BY <1>1, ReadingIs DEF ReadSyn, Taken
<1>3. Closes(e)
  BY <1>1, DyingCloses DEF ReadSyn
<1>4. recv' \in [Ends -> Frames \cup {Waiting, Ending, Done}]
  BY <1>1, <1>2 DEF ReadSyn, TypeOK
<1>5. TypeOK'
  BY <1>1, <1>2, <1>4 DEF ReadSyn, TypeOK, poolVars, sideVars, bufVars
<1>6. Quiet(e)
  BY <1>3 DEF ReadSyn, Quiet, sideVars
<1>7. NoNews
  BY <1>2, EndsAre DEF ReadSyn, NoNews, Asked, Told, sideVars, bufVars
<1> QED BY <1>1, <1>5, <1>6, <1>7, QuietStep

LEMMA HandleSynStep ==
  ASSUME SessionInv, NEW s \in Sessions, HandleSyn(s)
  PROVE  SessionInv'
<1> DEFINE e == Server(s)
           i == recv[e].sid
<1>1. TypeOK /\ e \in Ends
  BY EndsAre DEF SessionInv
<1>2. i \in Sids
  BY <1>1, RecvIs DEF HandleSyn, TypeOK
<1>3. Closes(e)
  BY <1>1, DyingCloses DEF HandleSyn
<1>4. recv' \in [Ends -> Frames \cup {Waiting, Ending, Done}]
  BY <1>1, HandledIs DEF HandleSyn
<1>5. TypeOK'
  BY <1>1, <1>2, <1>4 DEF HandleSyn, TypeOK, poolVars, bufVars
<1>6. Quiet(e)
  BY <1>3, EndsAre DEF HandleSyn, Quiet
<1>7. NoNews
  <2>1. \A r \in Sessions, j \in Sids :
          /\ handler'[r][j] \in {"serve", "copy"} => handler[r][j] \in {"serve", "copy"}
          /\ st'[Server(r)][j] = "fin" => st[Server(r)][j] = "fin"
    BY <1>1, <1>2, TypeTypes, EndsAre DEF HandleSyn
  <2> QED BY <2>1 DEF HandleSyn, NoNews, Asked, Told, bufVars
<1> QED BY <1>1, <1>5, <1>6, <1>7, QuietStep

LEMMA RefuseSynStep ==
  ASSUME SessionInv, NEW s \in Sessions, RefuseSyn(s)
  PROVE  SessionInv'
<1> DEFINE e == Server(s)
           f == Frame("ALERT", 0)
<1>1. TypeOK /\ e \in Ends /\ f \in Frames /\ (Write(e, f) \/ WriteFails(e))
  BY EndsAre, FramesAre DEF SessionInv, RefuseSyn
<1> HIDE DEF e, f
<1>2. /\ wire' \in [Ends -> Seq(Frames)] /\ kept' \in [Sessions -> Seq(Frames)]
      /\ Closes(e)
      /\ \A r \in Sessions :
           /\ Range(wire'[Server(r)]) \cup Range(kept'[r]) \subseteq
                Range(wire[Server(r)]) \cup Range(kept[r]) \cup {f}
           /\ Range(wire'[Client(r)]) \subseteq Range(wire[Client(r)]) \cup {f}
  BY <1>1, WriteIs
<1>3. TypeOK'
  BY <1>1, <1>2 DEF RefuseSyn, TypeOK, Closes, poolVars, sideVars, e
<1>4. Quiet(e)
  BY <1>2 DEF RefuseSyn, Quiet, sideVars
<1>5. NoNews
  <2>1. f.sid = 0 /\ \A i \in Sids : i # 0 /\ f # Frame("PSH", i)
    BY SessionsAssumption DEF Frame, Sids, f
  <2> QED BY <1>2, <2>1 DEF RefuseSyn, NoNews, Asked, Told, sideVars
<1> QED BY <1>1, <1>3, <1>4, <1>5, QuietStep

LEMMA DeliverStep ==
  ASSUME SessionInv, NEW s \in Sessions, Deliver(s)
  PROVE  SessionInv'
<1> DEFINE e == Server(s)
           i == Sid(e)
<1>1. TypeOK /\ e \in Ends /\ Reading(e, "PSH")
  BY EndsAre DEF SessionInv, Deliver
<1>2. /\ wire' \in [Ends -> Seq(Frames)]
      /\ \A x \in Ends : Range(wire'[x]) \subseteq Range(wire[x])
      /\ i \in Sids /\ Frame("PSH", i) \in Range(wire[e])
  BY <1>1, ReadingIs DEF Deliver, Taken
<1>3. Closes(e)
  BY <1>1, DyingCloses DEF Deliver
<1>4. recv' \in [Ends -> Frames \cup {Waiting, Ending, Done}]
  BY <1>1, HandledIs DEF Deliver
<1> HIDE DEF i
<1>5. handler' = IF NoStream(e, i) THEN handler
                 ELSE [handler EXCEPT ![s][i] = "serve"]
  BY DEF Deliver, i
<1>6. TypeOK'
  <2>1. handler' \in [Sessions -> [Sids -> {"none", "dest", "serve", "copy", "done"}]]
    BY <1>1, <1>2, <1>5, TypeTypes
  <2> QED BY <1>1, <1>2, <1>4, <2>1 DEF Deliver, TypeOK, poolVars, bufVars
<1>7. Quiet(e)
  BY <1>3 DEF Deliver, Quiet
<1>8. NoNews
  <2>1. \A r \in Sessions, j \in Sids :
          handler'[r][j] = handler[r][j] \/ (r = s /\ j = i)
    BY <1>1, <1>2, <1>5, TypeTypes
  <2> QED BY <1>2, <2>1, EndsAre DEF Deliver, NoNews, Asked, Told, bufVars
<1> QED BY <1>1, <1>6, <1>7, <1>8, QuietStep

LEMMA HandleServerSettingsStep ==
  ASSUME SessionInv, NEW s \in Sessions, HandleServerSettings(s)
  PROVE  SessionInv'
<1> DEFINE e == Client(s)
<1>1. TypeOK /\ e \in Ends /\ Reading(e, "SRV")
  BY EndsAre DEF SessionInv, HandleServerSettings
<1>2. /\ wire' \in [Ends -> Seq(Frames)]
      /\ \A x \in Ends : Range(wire'[x]) \subseteq Range(wire[x])
  BY <1>1, ReadingIs DEF HandleServerSettings, Taken
<1>3. Closes(e)
  BY <1>1, DyingCloses DEF HandleServerSettings
<1>4. recv' \in [Ends -> Frames \cup {Waiting, Ending, Done}]
  BY <1>1, HandledIs DEF HandleServerSettings
<1>5. TypeOK'
  <2>1. version' \in [Ends -> 0..2]
    BY <1>1 DEF HandleServerSettings, TypeOK
  <2>2. UNCHANGED <<client, pool, known, doomed, caller, die, streams, st, said, settled,
                    watch, next, handler, kept, buffering>>
    BY DEF HandleServerSettings, poolVars, bufVars
  <2> QED BY <1>1, <1>2, <1>4, <2>1, <2>2 DEF TypeOK
<1>6. Quiet(e)
  BY <1>3 DEF HandleServerSettings, Quiet
<1>7. NoNews
  BY <1>2, EndsAre DEF HandleServerSettings, NoNews, Asked, Told, bufVars
<1> QED BY <1>1, <1>5, <1>6, <1>7, QuietStep

LEMMA HandleAlertStep ==
  ASSUME SessionInv, NEW s \in Sessions, HandleAlert(s)
  PROVE  SessionInv'
<1> DEFINE e == Client(s)
<1>1. TypeOK /\ e \in Ends /\ Reading(e, "ALERT")
  BY EndsAre DEF SessionInv, HandleAlert
<1>2. /\ wire' \in [Ends -> Seq(Frames)]
      /\ \A x \in Ends : Range(wire'[x]) \subseteq Range(wire[x])
  BY <1>1, ReadingIs DEF HandleAlert, Taken
<1>3. Closes(e)
  BY <1>1, DyingCloses DEF HandleAlert
<1>4. recv' \in [Ends -> Frames \cup {Waiting, Ending, Done}]
  BY <1>1 DEF HandleAlert, TypeOK
<1>5. TypeOK'
  BY <1>1, <1>2, <1>4 DEF HandleAlert, TypeOK, poolVars, sideVars, bufVars
<1>6. Quiet(e)
  BY <1>3 DEF HandleAlert, Quiet, sideVars
<1>7. NoNews
  BY <1>2, EndsAre DEF HandleAlert, NoNews, Asked, Told, sideVars, bufVars
<1> QED BY <1>1, <1>5, <1>6, <1>7, QuietStep

LEMMA ReportStep ==
  ASSUME SessionInv, NEW s \in Sessions, NEW i \in Sids,
         NEW verdict \in {"ACK", "NACK"}, Report(s, i, verdict)
  PROVE  SessionInv'
<1> DEFINE e == Server(s)
           f == Frame(verdict, i)
<1>1. TypeOK /\ e \in Ends /\ f \in Frames /\ f.cmd # "PSH" /\ f.sid = i
  BY EndsAre, FramesAre DEF SessionInv
<1>2. \/ Write(e, f) \/ WriteFails(e)
      \/ UNCHANGED <<die, wire, kept>>
  BY DEF Report
<1>3. \A j \in Sids : f # Frame("PSH", j)
  BY <1>1, FramesAre
<1>4. /\ handler[s][i] = "serve"
      /\ handler' = [handler EXCEPT ![s][i] =
                       IF st[e][i] = "open" THEN "copy" ELSE "done"]
  BY DEF Report
<1>5. /\ UNCHANGED <<poolVars, caller, recv, streams, st, version, said,
                     settled, watch, next, buffering>>
  BY DEF Report
<1> HIDE DEF f
<1>6. /\ wire' \in [Ends -> Seq(Frames)] /\ kept' \in [Sessions -> Seq(Frames)]
      /\ Closes(e)
      /\ \A r \in Sessions :
           /\ Range(wire'[Server(r)]) \cup Range(kept'[r]) \subseteq
                Range(wire[Server(r)]) \cup Range(kept[r])
           /\ Range(wire'[Client(r)]) \subseteq
                Range(wire[Client(r)]) \cup {g \in {f} : r = s}
  <2>1. CASE UNCHANGED <<die, wire, kept>>
    BY <1>1, <2>1, DyingCloses DEF TypeOK
  <2>2. CASE Write(e, f) \/ WriteFails(e)
    BY <1>1, <2>2, ServerWritesIs
  <2> QED BY <1>2, <2>1, <2>2
<1>7. TypeOK'
  BY <1>1, <1>4, <1>5, <1>6 DEF TypeOK, Closes, poolVars
<1>8. Quiet(e)
  BY <1>5, <1>6 DEF Quiet
<1>9. NoNews
  <2>1. \A r \in Sessions, j \in Sids : handler'[r][j] = handler[r][j] \/ (r = s /\ j = i)
    BY <1>1, <1>4, TypeTypes
  <2>2. Asked(s, i)
    BY <1>4 DEF Asked
  <2>3. ASSUME NEW r \in Sessions, NEW j \in Sids, Asked(r, j)'
        PROVE  Asked(r, j)
    <3>1. CASE r = s /\ j = i
      BY <2>2, <3>1
    <3>2. CASE handler'[r][j] = handler[r][j]
      BY <1>6, <2>3, <3>2 DEF Asked
    <3> QED BY <2>1, <3>1, <3>2
  <2>4. \A r \in Sessions, j \in Sids : Told(r, j)' => Told(r, j) \/ (r = s /\ j = i)
    BY <1>1, <1>5, <1>6 DEF Told
  <2> QED BY <2>2, <2>3, <2>4 DEF NoNews
<1> QED BY <1>1, <1>7, <1>8, <1>9, QuietStep

LEMMA HandlerClosesStep ==
  ASSUME SessionInv, NEW s \in Sessions, NEW i \in Sids, HandlerCloses(s, i)
  PROVE  SessionInv'
<1> DEFINE e == Server(s)
<1>1. TypeOK /\ e \in Ends /\ Closing(e) = "fin"
  BY EndsAre DEF SessionInv, Closing
<1>2. Closes(e)
  BY <1>1, DyingCloses DEF HandlerCloses
<1>3. TypeOK'
  BY <1>1 DEF HandlerCloses, TypeOK, poolVars, bufVars
<1>4. Quiet(e)
  BY <1>2, EndsAre DEF HandlerCloses, Quiet
<1>5. NoNews
  <2>1. \A r \in Sessions, j \in Sids :
          /\ handler'[r][j] \in {"serve", "copy"} => handler[r][j] \in {"serve", "copy"}
          /\ st'[Server(r)][j] = st[Server(r)][j] \/ (r = s /\ j = i)
    BY <1>1, TypeTypes, EndsAre DEF HandlerCloses
  <2> QED BY <2>1 DEF HandlerCloses, NoNews, Asked, Told, bufVars
<1> QED BY <1>1, <1>3, <1>4, <1>5, QuietStep

LEMMA WatchExpiresStep ==
  ASSUME SessionInv, NEW s \in Sessions, WatchExpires(s)
  PROVE  SessionInv'
<1> DEFINE e == Client(s)
<1>1. TypeOK /\ e \in Ends
  BY EndsAre DEF SessionInv
<1>2. Closes(e)
  BY <1>1, DyingCloses DEF WatchExpires
<1>3. TypeOK'
  BY <1>1, <1>2 DEF WatchExpires, TypeOK, Closes, poolVars, bufVars
<1>4. Quiet(e)
  BY <1>2 DEF WatchExpires, Quiet
<1>5. NoNews
  BY DEF WatchExpires, NoNews, Asked, Told, bufVars
<1> QED BY <1>1, <1>3, <1>4, <1>5, QuietStep

LEMMA ServerClosesStep ==
  ASSUME SessionInv, NEW s \in Sessions, CloseStreams(Server(s))
  PROVE  SessionInv'
<1> DEFINE e == Server(s)
<1>1. TypeOK /\ e \in Ends /\ e[2] # "client" /\ e[1] = s
  BY EndsAre DEF SessionInv
<1>2. /\ die[e] = "streams" /\ die' = [die EXCEPT ![e] = "closed"]
      /\ wire' = [wire EXCEPT ![e] = << >>]
      /\ streams' = [streams EXCEPT ![e] = {}]
      /\ st' = [st EXCEPT ![e] = [i \in Sids |->
                  IF i \in streams[e] /\ @[i] = "open" THEN "closed" ELSE @[i]]]
      /\ handler' = [handler EXCEPT ![s] = [i \in Sids |->
                       IF @[i] = "none" THEN "none" ELSE "done"]]
      /\ UNCHANGED <<poolVars, caller, recv, version, said, settled, watch, next,
                     bufVars>>
  BY <1>1 DEF CloseStreams
<1>3. Closes(e)
  BY <1>1, <1>2 DEF TypeOK, Closes
<1>4. /\ wire' \in [Ends -> Seq(Frames)]
      /\ \A x \in Ends : Range(wire'[x]) \subseteq Range(wire[x])
  <2>1. << >> \in Seq(Frames) /\ Range(<< >>) = {}
    BY DEF Range
  <2> QED BY <1>1, <1>2, <2>1 DEF TypeOK
<1>5. /\ st' \in [Ends -> [Sids -> {"none", "open", "hookL", "hookN", "putL",
                                    "putN", "fin", "forget", "closed"}]]
      /\ handler' \in [Sessions -> [Sids -> {"none", "dest", "serve", "copy", "done"}]]
      /\ \A r \in Sessions, j \in Sids :
           /\ handler'[r][j] \in {"serve", "copy"} => handler[r][j] \in {"serve", "copy"}
           /\ st'[Server(r)][j] = "fin" => st[Server(r)][j] = "fin"
      /\ \A r \in Sessions : /\ st'[Client(r)] = st[Client(r)]
                             /\ streams'[Client(r)] = streams[Client(r)]
  BY <1>1, <1>2, TypeTypes, EndsAre
<1>6. TypeOK'
  BY <1>1, <1>2, <1>3, <1>4, <1>5 DEF TypeOK, Closes, poolVars, bufVars
<1>7. Quiet(e)
  BY <1>2, <1>3, <1>5 DEF Quiet
<1>8. NoNews
  BY <1>2, <1>4, <1>5, EndsAre DEF NoNews, Asked, Told, bufVars
<1> QED BY <1>1, <1>6, <1>7, <1>8, QuietStep

LEMMA ServerFinStep ==
  ASSUME SessionInv, NEW s \in Sessions, HandleFin(Server(s))
  PROVE  SessionInv'
<1> DEFINE e == Server(s)
           i == Sid(e)
<1>1. TypeOK /\ e \in Ends /\ e[2] = "server" /\ e[1] = s /\ Reading(e, "FIN")
  BY EndsAre DEF SessionInv, HandleFin
<1>2. /\ wire' \in [Ends -> Seq(Frames)] /\ i \in Sids
      /\ \A x \in Ends : Range(wire'[x]) \subseteq Range(wire[x])
  BY <1>1, ReadingIs DEF HandleFin, Taken
<1>3. recv' \in [Ends -> Frames \cup {Waiting, Ending, Done}]
  BY <1>1, HandledIs DEF HandleFin
<1>4. Closes(e)
  BY <1>1, DyingCloses DEF HandleFin
<1> HIDE DEF i
<1>5. /\ handler' = IF handler[s][i] \in {"dest", "copy"}
                    THEN [handler EXCEPT ![s][i] = "done"] ELSE handler
      /\ streams' = [streams EXCEPT ![e] = @ \ {i}]
      /\ st' = IF NoStream(e, i) THEN st ELSE [st EXCEPT ![e][i] = "closed"]
      /\ UNCHANGED <<poolVars, caller, die, version, said, settled, watch, next, bufVars>>
  BY <1>1 DEF HandleFin, i
<1>6. /\ st' \in [Ends -> [Sids -> {"none", "open", "hookL", "hookN", "putL",
                                    "putN", "fin", "forget", "closed"}]]
      /\ handler' \in [Sessions -> [Sids -> {"none", "dest", "serve", "copy", "done"}]]
      /\ streams' \in [Ends -> SUBSET Sids]
      /\ \A r \in Sessions, j \in Sids :
           /\ handler'[r][j] \in {"serve", "copy"} => handler[r][j] \in {"serve", "copy"}
           /\ st'[Server(r)][j] = "fin" => st[Server(r)][j] = "fin"
      /\ \A r \in Sessions : /\ st'[Client(r)] = st[Client(r)]
                             /\ streams'[Client(r)] = streams[Client(r)]
  BY <1>1, <1>2, <1>5, TypeTypes, EndsAre
<1>7. TypeOK'
  BY <1>1, <1>2, <1>3, <1>5, <1>6 DEF TypeOK, poolVars, bufVars
<1>8. Quiet(e)
  BY <1>4, <1>5, <1>6 DEF Quiet
<1>9. NoNews
  BY <1>2, <1>5, <1>6, EndsAre DEF NoNews, Asked, Told, bufVars
<1> QED BY <1>1, <1>7, <1>8, <1>9, QuietStep

LEMMA ServerSendsFinStep ==
  ASSUME SessionInv, NEW s \in Sessions, NEW i \in Sids, SendFin(Server(s), i)
  PROVE  SessionInv'
<1> DEFINE e == Server(s)
           f == Frame("FIN", i)
<1>1. TypeOK /\ e \in Ends /\ f \in Frames /\ f.sid = i /\ f.cmd # "PSH"
  BY EndsAre, FramesAre DEF SessionInv
<1>2. /\ st[e][i] = "fin" /\ st' = [st EXCEPT ![e][i] = "closed"]
      /\ \/ UNCHANGED <<die, wire, kept, streams>>
         \/ /\ streams' = [streams EXCEPT ![e] = @ \ {i}]
            /\ Write(e, f) \/ WriteFails(e)
      /\ UNCHANGED <<poolVars, caller, recv, sideVars, buffering>>
  BY DEF SendFin
<1>3. \A j \in Sids : f # Frame("PSH", j)
  BY <1>1, FramesAre
<1> HIDE DEF f
<1>4. /\ wire' \in [Ends -> Seq(Frames)] /\ kept' \in [Sessions -> Seq(Frames)]
      /\ Closes(e)
      /\ \A r \in Sessions :
           /\ Range(wire'[Server(r)]) \cup Range(kept'[r]) \subseteq
                Range(wire[Server(r)]) \cup Range(kept[r])
           /\ Range(wire'[Client(r)]) \subseteq
                Range(wire[Client(r)]) \cup {g \in {f} : r = s}
  <2>1. CASE UNCHANGED <<die, wire, kept>>
    BY <1>1, <2>1, DyingCloses DEF TypeOK
  <2>2. CASE Write(e, f) \/ WriteFails(e)
    BY <1>1, <2>2, ServerWritesIs
  <2> QED BY <1>2, <2>1, <2>2
<1>5. /\ st' \in [Ends -> [Sids -> {"none", "open", "hookL", "hookN", "putL",
                                    "putN", "fin", "forget", "closed"}]]
      /\ streams' \in [Ends -> SUBSET Sids]
      /\ \A r \in Sessions, j \in Sids :
           /\ st'[Server(r)][j] = "fin" => st[Server(r)][j] = "fin"
      /\ \A r \in Sessions : /\ st'[Client(r)] = st[Client(r)]
                             /\ streams'[Client(r)] = streams[Client(r)]
  <2>1. streams' = streams \/ streams' = [streams EXCEPT ![e] = @ \ {i}]
    BY <1>2
  <2>2. /\ streams' \in [Ends -> SUBSET Sids]
        /\ \A r \in Sessions : streams'[Client(r)] = streams[Client(r)]
    BY <1>1, <2>1, TypeTypes, EndsAre
  <2> QED BY <1>1, <1>2, <2>2, TypeTypes, EndsAre
<1>6. TypeOK'
  BY <1>1, <1>2, <1>4, <1>5 DEF TypeOK, Closes, poolVars, sideVars
<1>7. Quiet(e)
  BY <1>2, <1>4, <1>5 DEF Quiet, sideVars
<1>8. NoNews
  BY <1>1, <1>2, <1>3, <1>4, <1>5 DEF NoNews, Asked, Told, sideVars
<1> QED BY <1>1, <1>6, <1>7, <1>8, QuietStep
-----------------------------------------------------------------------------
(* The callers' steps *)

LEMMA AnswersKept ==
  ASSUME SessionInv, NoNews,
         \A s \in Sessions, i \in Sids : Mapped(s, i) => Mapped(s, i)'
  PROVE  AnswersFollow'
<1>1. \A s \in Sessions, i \in Sids : Asked(s, i) \/ Told(s, i) => Mapped(s, i)
  BY DEF SessionInv, AnswersFollow
<1>2. ASSUME NEW s \in Sessions, NEW i \in Sids, Asked(s, i)' \/ Told(s, i)'
      PROVE  Mapped(s, i)'
  <2>1. Asked(s, i) \/ Told(s, i)
    BY <1>2 DEF NoNews
  <2> QED BY <1>1, <2>1
<1> QED BY <1>2 DEF AnswersFollow

(* Only a caller moves, and it has no session and no stream. *)
LEMMA CallerMoves ==
  ASSUME SessionInv, NEW k \in Callers, NEW c \in {"idle", "get", "dial"},
         ~Owns(k), At(k, "open") => IsClosed(Client(caller[k].s)),
         caller' = [caller EXCEPT ![k] = [pc |-> c, s |-> 0, i |-> 0]],
         UNCHANGED <<poolVars, die, wire, recv, streams, st, sideVars, bufVars>>
  PROVE  SessionInv'
<1>1. /\ caller \in [Callers -> [pc : {"idle", "get", "dial", "open", "syn", "insert",
                                       "using", "asked"},
                                 s : Sessions \cup {0}, i : 0..MaxSid]]
      /\ SessionInv
  BY DEF SessionInv, TypeOK
<1>2. /\ caller'[k].pc \in {"idle", "get", "dial"}
      /\ \A l \in Callers : l # k => caller'[l] = caller[l]
  BY <1>1
<1>3. TypeOK'
  BY <1>1, SessionsAssumption DEF SessionInv, TypeOK, poolVars, sideVars, bufVars
<1>4. OneOwner'
  BY <1>1, <1>2 DEF SessionInv, OneOwner, Busy, Holds, At, poolVars
<1>5. Fresh'
  BY <1>1, <1>2 DEF SessionInv, Fresh, Holds, At, poolVars, sideVars
<1>6. Announced'
  BY <1>1, <1>2 DEF SessionInv, Announced, Owns, At, Mapped, IsClosed, sideVars
<1>7. MapsEmptied'
  BY DEF SessionInv, MapsEmptied
<1>8. AnswersFollow'
  BY AnswersKept DEF NoNews, Asked, Told, Mapped, IsClosed, sideVars, bufVars
<1>9. InCustody'
  BY <1>1, <1>2 DEF SessionInv, InCustody, ClosedClientKeepsNoSession, At, Owns,
                    IsClosed, poolVars
<1> QED BY <1>3, <1>4, <1>5, <1>6, <1>7, <1>8, <1>9 DEF SessionInv

LEMMA CreateStreamStep ==
  ASSUME SessionInv, NEW k \in Callers, CreateStream(k)
  PROVE  SessionInv'
BY CallerMoves DEF CreateStream, Goto, At, Owns

LEMMA DialFailsStep ==
  ASSUME SessionInv, NEW k \in Callers, DialFails(k)
  PROVE  SessionInv'
BY CallerMoves DEF DialFails, Return, Nobody, At, Owns

LEMMA OpenStreamFailsStep ==
  ASSUME SessionInv, NEW k \in Callers, OpenStreamFails(k)
  PROVE  SessionInv'
BY CallerMoves DEF OpenStreamFails, Return, Nobody, At, Owns

LEMMA GetIdleSessionStep ==
  ASSUME SessionInv, NEW k \in Callers, GetIdleSession(k)
  PROVE  SessionInv'
<1>1. CASE pool = {}
  BY <1>1, CallerMoves DEF GetIdleSession, Goto, At, Owns, poolVars
<1>2. CASE pool # {}
  <2>1. PICK s \in pool : Goto(k, "open", s, 0) /\ pool' = pool \ {s}
    BY <1>2 DEF GetIdleSession
  <2>2. TypeOK /\ s \in Sessions /\ At(k, "get")
    BY DEF SessionInv, TypeOK, GetIdleSession
  <2>3. UNCHANGED <<client, known, doomed, die, wire, recv, streams, st, sideVars, bufVars>>
    BY DEF GetIdleSession
  <2>4. /\ caller'[k] = [pc |-> "open", s |-> s, i |-> 0]
        /\ \A l \in Callers : l # k => caller'[l] = caller[l]
    BY <2>1, <2>2 DEF Goto, TypeOK
  <2>5. TypeOK'
    BY <2>1, <2>2, <2>3, SessionsAssumption DEF TypeOK, Goto, sideVars, bufVars
  <2>6. OneOwner'
    BY <2>1, <2>2, <2>3, <2>4 DEF SessionInv, OneOwner, Busy, Holds, At
  <2>7. Fresh'
    BY <2>1, <2>2, <2>3, <2>4 DEF SessionInv, Fresh, Holds, At, sideVars
  <2>8. Announced'
    BY <2>1, <2>2, <2>3, <2>4 DEF SessionInv, Announced, Owns, At, Mapped, IsClosed, sideVars
  <2>9. MapsEmptied'
    BY <2>3 DEF SessionInv, MapsEmptied
  <2>10. AnswersFollow'
    BY <2>3, AnswersKept DEF NoNews, Asked, Told, Mapped, IsClosed, sideVars, bufVars
  <2>11. InCustody'
    BY <2>1, <2>2, <2>3, <2>4 DEF SessionInv, InCustody, ClosedClientKeepsNoSession, At
  <2> QED BY <2>5, <2>6, <2>7, <2>8, <2>9, <2>10, <2>11 DEF SessionInv
<1> QED BY <1>1, <1>2

LEMMA DialStep ==
  ASSUME SessionInv, NEW k \in Callers, NEW s \in Sessions, NEW v \in Versions,
         Dial(k, s, v)
  PROVE  SessionInv'
<1>1. /\ TypeOK /\ At(k, "dial") /\ Client(s) \in Ends /\ Server(s) \in Ends
      /\ die[Client(s)] = "none" /\ Frame("SET", 0) \in Frames
  BY EndsAre, FramesAre DEF SessionInv, Dial
<1>2. /\ caller'[k] = [pc |-> "open", s |-> s, i |-> 0]
      /\ \A l \in Callers : l # k => caller'[l] = caller[l]
  BY <1>1 DEF Dial, Goto, TypeOK
<1>3. /\ die' \in [Ends -> {"none", "open", "hook", "streams", "closed"}]
      /\ die'[Client(s)] = "open"
      /\ \A r \in Sessions : r # s => die'[Client(r)] = die[Client(r)]
  <2>1. Client(s) # Server(s) /\ \A r \in Sessions : /\ Client(r) \in Ends
                                                     /\ Client(r) # Server(s)
                                                     /\ r # s => Client(r) # Client(s)
    BY EndsAre
  <2>2. die' = [die EXCEPT ![Client(s)] = "open", ![Server(s)] = "open"]
    BY DEF Dial
  <2>3. die \in [Ends -> {"none", "open", "hook", "streams", "closed"}]
    BY <1>1 DEF TypeOK
  <2> QED BY <1>1, <2>1, <2>2, <2>3
<1>4. /\ kept' \in [Sessions -> Seq(Frames)]
      /\ \A r \in Sessions : r # s => kept'[r] = kept[r]
      /\ Range(kept'[s]) \subseteq {Frame("SET", 0)}
  <2>1. /\ <<Frame("SET", 0)>> \in Seq(Frames) /\ << >> \in Seq(Frames)
        /\ Range(<<Frame("SET", 0)>>) = {Frame("SET", 0)} /\ Range(<< >>) = {}
    BY <1>1 DEF Range
  <2> QED BY <1>1, <2>1 DEF Dial, TypeOK
<1>5. /\ next[s] = 0 /\ s \notin pool /\ (\A l \in Callers : ~Holds(l, s))
      /\ \A i \in Sids : i > 0 /\ st[Client(s)][i] = "none"
  <2>1. next[s] = 0 /\ s \notin pool /\ \A l \in Callers : ~Holds(l, s)
    BY <1>1 DEF SessionInv, Fresh
  <2>2. \A i \in Sids : i > 0
    BY SessionsAssumption DEF Sids
  <2> QED BY <2>1, <2>2 DEF SessionInv, Fresh
<1>6. TypeOK'
  <2>1. caller' \in [Callers -> [pc : {"idle", "get", "dial", "open", "syn", "insert",
                                       "using", "asked"},
                                 s : Sessions \cup {0}, i : 0..MaxSid]]
    BY <1>1, SessionsAssumption DEF Dial, Goto, TypeOK
  <2>2. said' \in [Sessions -> 0..2] /\ recv' \in [Ends -> Frames \cup {Waiting, Ending, Done}]
    BY <1>1, SessionsAssumption DEF Dial, TypeOK
  <2> QED BY <1>1, <1>3, <1>4, <2>1, <2>2 DEF Dial, TypeOK
<1>7. OneOwner'
  <2>1. \A i \in Sids : ~Busy(s, i)
    BY <1>5 DEF Busy
  <2> QED BY <1>1, <1>2, <1>5, <2>1 DEF SessionInv, OneOwner, Busy, Holds, At, Dial
<1>8. Fresh'
  <2>1. \A r \in Sessions, l \in Callers : Holds(l, r)' => Holds(l, r) \/ r = s
    BY <1>2 DEF Holds, At
  <2>2. \A r \in Sessions : die'[Client(r)] = "none" => die[Client(r)] = "none" /\ r # s
    BY <1>3
  <2> QED BY <2>1, <2>2 DEF SessionInv, Fresh, Dial
<1>9. Announced'
  <2>1. \A l \in Callers : Owns(l) => caller[l].s # s
    BY <1>5, SessionsAssumption DEF SessionInv, Announced
  <2>2. \A l \in Callers : caller'[l].pc \in {"syn", "insert", "using", "asked"} => Owns(l) /\ l # k
    BY <1>2 DEF Owns
  <2>3. ASSUME NEW l \in Callers, l # k, caller[l].pc \in {"using", "asked"}
        PROVE  Mapped(caller[l].s, caller[l].i)'
    <3>1. Mapped(caller[l].s, caller[l].i) /\ caller[l].s \in Sessions \ {s}
      BY <2>1, <2>3 DEF SessionInv, Announced, Owns
    <3> QED BY <1>2, <1>3, <2>3, <3>1 DEF Mapped, IsClosed, Dial
  <2>4. UNCHANGED <<st, streams, next>>
    BY DEF Dial
  <2> QED BY <1>1, <1>2, <2>2, <2>3, <2>4 DEF SessionInv, Announced, Owns, At
<1>10. MapsEmptied'
  BY <1>3 DEF SessionInv, MapsEmptied, Dial
<1>11. AnswersFollow'
  <2>1. NoNews
    <3>1. \A i \in Sids : Frame("SET", 0) # Frame("PSH", i)
      BY FramesAre
    <3> QED BY <1>4, <3>1 DEF NoNews, Asked, Told, Dial
  <2>2. \A r \in Sessions, i \in Sids : Mapped(r, i) => Mapped(r, i)'
    <3>1. \A i \in Sids : ~Mapped(s, i)
      BY <1>5, SessionsAssumption DEF Mapped, Sids
    <3>2. ASSUME NEW r \in Sessions, NEW i \in Sids, r # s, Mapped(r, i)
          PROVE  Mapped(r, i)'
      BY <1>3, <3>2 DEF Mapped, IsClosed, Dial
    <3> QED BY <3>1, <3>2
  <2> QED BY <2>1, <2>2, AnswersKept
<1>12. InCustody'
  <2>1. UNCHANGED <<client, doomed, st>> /\ known' = known \cup {s}
    BY DEF Dial
  <2>2. ASSUME client' # "closed", NEW r \in Sessions, die'[Client(r)] = "open"
        PROVE  r \in known'
    BY <1>3, <2>1, <2>2 DEF SessionInv, InCustody
  <2>3. ASSUME client' = "closed", NEW r \in Sessions, die'[Client(r)] = "open", r # s
        PROVE  \/ r \in doomed'
               \/ \E l \in Callers : /\ caller'[l].pc \in {"open", "syn", "insert"}
                                    /\ caller'[l].s = r
               \/ \E i \in Sids : st'[Client(r)][i] \in {"open", "hookL", "hookN"}
    <3>1. \/ r \in doomed
          \/ \E l \in Callers : caller[l].pc \in {"open", "syn", "insert"} /\ caller[l].s = r
          \/ \E i \in Sids : st[Client(r)][i] \in {"open", "hookL", "hookN"}
      BY <1>3, <2>1, <2>3 DEF SessionInv, InCustody, ClosedClientKeepsNoSession
    <3> QED BY <1>1, <1>2, <2>1, <3>1 DEF At
  <2>4. \E l \in Callers : caller'[l].pc \in {"open", "syn", "insert"} /\ caller'[l].s = s
    BY <1>2
  <2> QED BY <2>2, <2>3, <2>4 DEF InCustody, ClosedClientKeepsNoSession
<1> QED BY <1>6, <1>7, <1>8, <1>9, <1>10, <1>11, <1>12 DEF SessionInv

(* One stream of one client changes. *)
LEMMA StreamTurns ==
  ASSUME TypeOK, NEW s \in Sessions, NEW i \in Sids,
         NEW c \in {"none", "open", "hookL", "hookN", "putL", "putN", "fin", "forget", "closed"},
         st' = [st EXCEPT ![Client(s)][i] = c]
  PROVE  /\ st' \in [Ends -> [Sids -> {"none", "open", "hookL", "hookN", "putL",
                                       "putN", "fin", "forget", "closed"}]]
         /\ st'[Client(s)][i] = c
         /\ \A r \in Sessions, j \in Sids :
              r # s \/ j # i => st'[Client(r)][j] = st[Client(r)][j]
         /\ \A r \in Sessions : st'[Server(r)] = st[Server(r)]
<1>1. /\ Client(s) \in Ends
      /\ \A r \in Sessions : /\ Client(r) \in Ends /\ Server(r) \in Ends
                             /\ Server(r) # Client(s) /\ (r # s => Client(r) # Client(s))
  BY EndsAre
<1> QED BY <1>1, TypeTypes

(* One caller goes on. *)
LEMMA CallerGoes ==
  ASSUME TypeOK, NEW k \in Callers,
         NEW c \in {"idle", "get", "dial", "open", "syn", "insert", "using", "asked"},
         NEW s \in Sessions \cup {0}, NEW i \in 0..MaxSid, Goto(k, c, s, i)
  PROVE  /\ caller' \in [Callers -> [pc : {"idle", "get", "dial", "open", "syn", "insert",
                                           "using", "asked"},
                                     s : Sessions \cup {0}, i : 0..MaxSid]]
         /\ caller'[k].pc = c /\ caller'[k].s = s /\ caller'[k].i = i
         /\ \A l \in Callers : l # k => caller'[l] = caller[l]
BY DEF TypeOK, Goto

(* Who still looks after an open session of a closed Client. *)
Cared(s) ==
  \/ s \in doomed
  \/ \E k \in Callers : caller[k].pc \in {"open", "syn", "insert"} /\ caller[k].s = s
  \/ \E i \in Sids : st[Client(s)][i] \in {"open", "hookL", "hookN"}

LEMMA CustodyKept ==
  ASSUME SessionInv, UNCHANGED <<client, known>>,
         \A s \in Sessions : die'[Client(s)] = "open" =>
           die[Client(s)] = "open" /\ (Cared(s) => Cared(s)')
  PROVE  InCustody'
<1>1. client = "closed" => \A s \in Sessions : die[Client(s)] = "open" => Cared(s)
  BY DEF SessionInv, InCustody, ClosedClientKeepsNoSession, Cared
<1>2. client' = "closed" => \A s \in Sessions : die'[Client(s)] = "open" => Cared(s)'
  BY <1>1
<1>3. ClosedClientKeepsNoSession'
  BY <1>2 DEF ClosedClientKeepsNoSession, Cared
<1> QED BY <1>3 DEF SessionInv, InCustody

LEMMA OpenStreamStep ==
  ASSUME SessionInv, NEW k \in Callers, OpenStream(k)
  PROVE  SessionInv'
<1>1. TypeOK /\ At(k, "open")
  BY DEF SessionInv, OpenStream
<1>2. PICK s \in Sessions : s = caller[k].s
  BY <1>1 DEF SessionInv, Announced
<1>3. PICK i \in Sids : i = next[s] + 1
  BY <1>1, <1>2, SessionsAssumption DEF OpenStream, TypeOK, Sids
<1> DEFINE e == Client(s)
<1>4. /\ Holds(k, s) /\ die[e] = "open" /\ next[s] \in Nat /\ i \in 0..MaxSid
      /\ Goto(k, "syn", s, i) /\ st' = [st EXCEPT ![e][i] = "open"]
      /\ next' = [next EXCEPT ![s] = i]
      /\ UNCHANGED <<poolVars, die, wire, recv, streams, version, said, settled,
                     handler, bufVars>>
  <2>1. next[s] \in Nat /\ i \in 0..MaxSid
    BY <1>1, SessionsAssumption DEF TypeOK, Sids
  <2> QED BY <1>1, <1>2, <1>3, <2>1 DEF OpenStream, Holds, IsClosed
<1>5. watch' \in [Sessions -> BOOLEAN]
  BY <1>1 DEF OpenStream, TypeOK
<1>6. /\ \A r \in Sessions : r # s => next'[r] = next[r]
      /\ next' \in [Sessions -> 0..MaxSid] /\ next'[s] = next[s] + 1
  BY <1>1, <1>4, <1>3 DEF TypeOK
<1>7. /\ caller' \in [Callers -> [pc : {"idle", "get", "dial", "open", "syn", "insert",
                                       "using", "asked"},
                                  s : Sessions \cup {0}, i : 0..MaxSid]]
      /\ caller'[k].pc = "syn" /\ caller'[k].s = s /\ caller'[k].i = i
      /\ \A l \in Callers : l # k => caller'[l] = caller[l]
  BY <1>1, <1>4, CallerGoes
<1>8. /\ st' \in [Ends -> [Sids -> {"none", "open", "hookL", "hookN", "putL",
                                    "putN", "fin", "forget", "closed"}]]
      /\ st'[e][i] = "open"
      /\ \A r \in Sessions, j \in Sids :
           r # s \/ j # i => st'[Client(r)][j] = st[Client(r)][j]
      /\ \A r \in Sessions : st'[Server(r)] = st[Server(r)]
  BY <1>1, <1>4, StreamTurns
<1>9. st[e][i] = "none" /\ i \notin streams[e]
  BY <1>4, <1>3 DEF SessionInv, Fresh
<1>10. TypeOK'
  BY <1>1, <1>4, <1>5, <1>6, <1>7, <1>8 DEF TypeOK, poolVars, bufVars
<1>11. OneOwner'
  <2>1. s \notin pool /\ \A j \in Sids : ~Busy(s, j)
    BY <1>4 DEF SessionInv, OneOwner
  <2>2. \A l \in Callers, r \in Sessions : Holds(l, r)' => Holds(l, r) /\ l # k
    BY <1>7 DEF Holds, At
  <2>3. \A l \in Callers : ~Holds(l, s)'
    BY <1>4, <2>2 DEF SessionInv, OneOwner
  <2>4. \A r \in Sessions, j \in Sids : Busy(r, j)' => Busy(r, j) \/ (r = s /\ j = i)
    BY <1>8 DEF Busy
  <2>5. pool' = pool
    BY <1>4 DEF poolVars
  <2> QED BY <2>1, <2>2, <2>3, <2>4, <2>5 DEF SessionInv, OneOwner
<1>12. Fresh'
  <2>1. \A l \in Callers, r \in Sessions : Holds(l, r)' => Holds(l, r)
    BY <1>7 DEF Holds, At
  <2>2. ASSUME NEW r \in Sessions, NEW j \in Sids, j > next'[r]
        PROVE  st'[Client(r)][j] = "none" /\ j \notin streams'[Client(r)]
    <3>1. j > next[r] /\ (r # s \/ j # i)
      BY <1>4, <1>6, <1>3, <2>2, SessionsAssumption DEF Sids
    <3> QED BY <1>4, <1>8, <3>1 DEF SessionInv, Fresh
  <2>3. ASSUME NEW r \in Sessions, die'[Client(r)] = "none"
        PROVE  next'[r] = 0 /\ r \notin pool' /\ \A l \in Callers : ~Holds(l, r)'
    <3>1. r # s /\ die[Client(r)] = "none"
      BY <1>4, <2>3
    <3> QED BY <1>4, <1>6, <2>1, <3>1 DEF SessionInv, Fresh, poolVars
  <2> QED BY <2>2, <2>3 DEF Fresh
<1>13. \A r \in Sessions, j \in Sids : Mapped(r, j) => Mapped(r, j)' /\ (r # s \/ j # i)
  BY <1>4, <1>6, <1>8, <1>3, SessionsAssumption DEF Mapped, IsClosed, Sids
<1>14. Announced'
  <2>1. ASSUME NEW l \in Callers, l # k, Owns(l)
        PROVE  /\ caller[l].s \in Sessions /\ caller[l].i \in Sids
               /\ caller[l].i \in 1..next[caller[l].s]
               /\ caller[l].i \in 1..next'[caller[l].s]
               /\ caller[l].s # s \/ caller[l].i # i
    <3>1. caller[l].s \in Sessions /\ caller[l].i \in 1..next[caller[l].s] /\ caller[l].i \in Sids
      BY <1>1, <2>1, OwnersAre DEF SessionInv, Announced
    <3>2. next[caller[l].s] \in Int /\ next'[caller[l].s] \in Int
      <4>1. next[caller[l].s] \in 0..MaxSid /\ next'[caller[l].s] \in 0..MaxSid
        BY <1>1, <1>6, <3>1, TypeTypes
      <4> QED BY <4>1, SessionsAssumption
    <3> QED BY <1>6, <1>3, <3>1, <3>2
  <2>2. \A l \in Callers : l # k /\ Owns(l)' => Owns(l)
    BY <1>7 DEF Owns
  <2>3. i \in 1..next'[s]
    BY <1>4, <1>6, <1>3
  <2> QED BY <1>4, <1>7, <1>8, <1>9, <1>13, <2>1, <2>2, <2>3
          DEF SessionInv, Announced, Owns, At
<1>15. MapsEmptied'
  BY <1>4 DEF SessionInv, MapsEmptied
<1>16. AnswersFollow'
  <2>1. NoNews
    BY <1>4, <1>8 DEF NoNews, Asked, Told, bufVars
  <2> QED BY <1>13, <2>1, AnswersKept
<1>17. InCustody'
  <2>1. ASSUME NEW r \in Sessions, Cared(r) PROVE Cared(r)'
    <3>1. CASE r \in doomed
      BY <1>4, <3>1 DEF Cared, poolVars
    <3>2. CASE \E l \in Callers : caller[l].pc \in {"open", "syn", "insert"} /\ caller[l].s = r
      BY <1>7, <1>2, <3>2 DEF Cared
    <3>3. CASE \E j \in Sids : st[Client(r)][j] \in {"open", "hookL", "hookN"}
      BY <1>8, <1>9, <3>3 DEF Cared
    <3> QED BY <2>1, <3>1, <3>2, <3>3 DEF Cared
  <2> QED BY <1>4, <2>1, CustodyKept DEF poolVars
<1> QED BY <1>10, <1>11, <1>12, <1>14, <1>15, <1>16, <1>17 DEF SessionInv

(* A caller goes on with its stream, or leaves it. *)
LEMMA OwnerGoes ==
  ASSUME SessionInv, TypeOK', NEW k \in Callers, NEW s \in Sessions, NEW i \in Sids,
         Owns(k), caller[k].s = s, caller[k].i = i,
         UNCHANGED <<poolVars, next>>,
         ~At(k, "open")',
         Owns(k)' => caller'[k].s = s /\ caller'[k].i = i,
         caller'[k].pc \in {"syn", "insert"} =>
           st'[Client(s)][i] = "open" /\ i \notin streams'[Client(s)],
         caller'[k].pc \in {"using", "asked"} => Mapped(s, i)',
         \A l \in Callers : l # k => caller'[l] = caller[l],
         \A r \in Sessions, j \in Sids : r # s \/ j # i =>
           /\ st'[Client(r)][j] = st[Client(r)][j]
           /\ j \in streams'[Client(r)] <=> j \in streams[Client(r)],
         Busy(s, i)' => Busy(s, i),
         i \in streams'[Client(s)] => i \in streams[Client(s)] \/ die[Client(s)] = "open",
         \A r \in Sessions :
           /\ die'[Client(r)] = "open" => die[Client(r)] = "open"
           /\ die'[Client(r)] = "none" => die[Client(r)] = "none"
           /\ die'[Client(r)] = "closed" => die[Client(r)] = "closed",
         Mapped(s, i) => Mapped(s, i)',
         \A r \in Sessions, j \in Sids : (Asked(r, j) \/ Told(r, j))' =>
           Asked(r, j) \/ Told(r, j) \/ Mapped(r, j)',
         die'[Client(s)] = "open" /\ Cared(s) => Cared(s)'
  PROVE  SessionInv'
<1>1. TypeOK /\ i <= next[s] /\ next' = next
  BY OwnersAre DEF SessionInv
<1>2. \A l \in Callers, r \in Sessions : Holds(l, r)' => Holds(l, r)
  BY DEF Holds, At
<1>3. \A r \in Sessions, j \in Sids : Busy(r, j)' => Busy(r, j)
  BY DEF Busy
<1>4. \A r \in Sessions, j \in Sids : Mapped(r, j) => Mapped(r, j)'
  <2>1. ASSUME NEW r \in Sessions, NEW j \in Sids, Mapped(r, j), r # s \/ j # i
        PROVE  Mapped(r, j)'
    BY <1>1, <2>1 DEF Mapped, IsClosed
  <2> QED BY <2>1
<1>5. OneOwner'
  BY <1>2, <1>3 DEF SessionInv, OneOwner, poolVars
<1>6. Fresh'
  <2>1. ASSUME NEW r \in Sessions, NEW j \in Sids, j > next[r]
        PROVE  st'[Client(r)][j] = "none" /\ j \notin streams'[Client(r)]
    <3>1. r # s \/ j # i
      BY <1>1, <2>1, TypeTypes, SessionsAssumption DEF Sids
    <3> QED BY <2>1, <3>1 DEF SessionInv, Fresh
  <2> QED BY <1>1, <1>2, <2>1 DEF SessionInv, Fresh, poolVars
<1>7. Announced'
  <2>1. ASSUME NEW l \in Callers, l # k, Owns(l)
        PROVE  /\ caller[l].s \in Sessions /\ caller[l].i \in Sids
               /\ caller[l].s # s \/ caller[l].i # i
    BY <1>1, <2>1, OwnersAre DEF SessionInv, Announced
  <2>2. \A l \in Callers : l # k /\ Owns(l)' => Owns(l)
    BY DEF Owns
  <2>3. i \in 1..next[s]
    BY <1>1, TypeTypes, SessionsAssumption DEF Sids
  <2> QED BY <1>1, <1>4, <2>1, <2>2, <2>3 DEF SessionInv, Announced, Owns, At
<1>8. MapsEmptied'
  <2>1. ASSUME NEW r \in Sessions, die'[Client(r)] = "closed" PROVE streams'[Client(r)] = {}
    <3>1. streams[Client(r)] = {} /\ die[Client(r)] = "closed"
      BY <2>1 DEF SessionInv, MapsEmptied
    <3>2. streams'[Client(r)] \subseteq Sids
      BY EndsAre DEF TypeOK
    <3> QED BY <3>1, <3>2
  <2> QED BY <2>1 DEF MapsEmptied
<1>9. AnswersFollow'
  BY <1>4 DEF SessionInv, AnswersFollow
<1>10. InCustody'
  <2>1. ASSUME NEW r \in Sessions, r # s, Cared(r) PROVE Cared(r)'
    <3>1. CASE r \in doomed
      BY <3>1 DEF Cared, poolVars
    <3>2. CASE \E l \in Callers : caller[l].pc \in {"open", "syn", "insert"} /\ caller[l].s = r
      BY <2>1, <3>2 DEF Cared
    <3>3. CASE \E j \in Sids : st[Client(r)][j] \in {"open", "hookL", "hookN"}
      BY <2>1, <3>3 DEF Cared
    <3> QED BY <2>1, <3>1, <3>2, <3>3 DEF Cared
  <2> QED BY <2>1, CustodyKept DEF poolVars
<1> QED BY <1>5, <1>6, <1>7, <1>8, <1>9, <1>10 DEF SessionInv

LEMMA SendSynStep ==
  ASSUME SessionInv, NEW k \in Callers, SendSyn(k)
  PROVE  SessionInv'
<1>1. TypeOK /\ caller[k].pc = "syn" /\ Owns(k)
  BY DEF SessionInv, SendSyn, At, Owns
<1>2. PICK s \in Sessions, i \in Sids : s = caller[k].s /\ i = caller[k].i
  BY <1>1, OwnersAre DEF SessionInv
<1> DEFINE e == Client(s)
           f == Frame("SYN", i)
<1>3. /\ e \in Ends /\ f \in Frames /\ Write(e, f) /\ UNCHANGED die
      /\ Goto(k, "insert", s, i) /\ buffering' = [buffering EXCEPT ![s] = FALSE]
      /\ UNCHANGED <<poolVars, recv, streams, st, sideVars>>
  BY <1>2, EndsAre, FramesAre DEF SendSyn, Write
<1>4. /\ wire' \in [Ends -> Seq(Frames)] /\ kept' \in [Sessions -> Seq(Frames)]
      /\ \A r \in Sessions :
           /\ Range(wire'[Server(r)]) \cup Range(kept'[r]) \subseteq
                Range(wire[Server(r)]) \cup Range(kept[r]) \cup {f}
           /\ Range(wire'[Client(r)]) \subseteq Range(wire[Client(r)])
  <2>1. \A r \in Sessions : e # Server(r)
    BY EndsAre
  <2> HIDE DEF e, f
  <2> QED BY <1>1, <1>3, <2>1, WriteIs
<1>5. /\ caller' \in [Callers -> [pc : {"idle", "get", "dial", "open", "syn", "insert",
                                       "using", "asked"},
                                  s : Sessions \cup {0}, i : 0..MaxSid]]
      /\ caller'[k].pc = "insert" /\ caller'[k].s = s /\ caller'[k].i = i
      /\ \A l \in Callers : l # k => caller'[l] = caller[l]
  BY <1>1, <1>2, <1>3, CallerGoes, SessionsAssumption DEF Sids
<1>6. TypeOK'
  BY <1>1, <1>3, <1>4, <1>5 DEF TypeOK, poolVars, sideVars
<1>7. st[e][i] = "open" /\ i \notin streams[e]
  BY <1>1, <1>2 DEF SessionInv, Announced
<1>8. \A r \in Sessions, j \in Sids : (Asked(r, j) \/ Told(r, j))' =>
                                         Asked(r, j) \/ Told(r, j)
  <2>1. \A j \in Sids : f # Frame("PSH", j)
    BY FramesAre
  <2> QED BY <1>3, <1>4, <2>1 DEF Asked, Told, sideVars
<1>9. Cared(s)'
  BY <1>5 DEF Cared
<1> QED BY <1>1, <1>2, <1>3, <1>5, <1>6, <1>7, <1>8, <1>9, OwnerGoes
        DEF Busy, Mapped, IsClosed, At, sideVars

LEMMA SendSynFailsStep ==
  ASSUME SessionInv, NEW k \in Callers, SendSynFails(k)
  PROVE  SessionInv'
<1>1. TypeOK /\ caller[k].pc = "syn" /\ Owns(k)
  BY DEF SessionInv, SendSynFails, At, Owns
<1>2. PICK s \in Sessions, i \in Sids : s = caller[k].s /\ i = caller[k].i
  BY <1>1, OwnersAre DEF SessionInv
<1> DEFINE e == Client(s)
<1>3. /\ e \in Ends /\ die' = Dying({e}) /\ UNCHANGED <<wire, kept>>
      /\ st' = [st EXCEPT ![e][i] = "closed"] /\ Goto(k, "idle", 0, 0)
      /\ UNCHANGED <<poolVars, recv, streams, sideVars, buffering>>
  BY <1>2, EndsAre DEF SendSynFails, WriteFails, Return, Nobody, Goto
<1>4. Closes(e) /\ die'[e] # "open"
  BY <1>1, <1>3, DyingCloses
<1>5. /\ caller' \in [Callers -> [pc : {"idle", "get", "dial", "open", "syn", "insert",
                                       "using", "asked"},
                                  s : Sessions \cup {0}, i : 0..MaxSid]]
      /\ caller'[k].pc = "idle"
      /\ \A l \in Callers : l # k => caller'[l] = caller[l]
  BY <1>1, <1>3, CallerGoes, SessionsAssumption
<1>6. /\ st' \in [Ends -> [Sids -> {"none", "open", "hookL", "hookN", "putL",
                                    "putN", "fin", "forget", "closed"}]]
      /\ st'[e][i] = "closed"
      /\ \A r \in Sessions, j \in Sids :
           r # s \/ j # i => st'[Client(r)][j] = st[Client(r)][j]
      /\ \A r \in Sessions : st'[Server(r)] = st[Server(r)]
  BY <1>1, <1>3, StreamTurns
<1>7. TypeOK'
  BY <1>1, <1>3, <1>4, <1>5, <1>6 DEF TypeOK, Closes, poolVars, sideVars
<1>8. \A r \in Sessions, j \in Sids : (Asked(r, j) \/ Told(r, j))' =>
                                         Asked(r, j) \/ Told(r, j)
  BY <1>3, <1>6 DEF Asked, Told, sideVars
<1>9. \A r \in Sessions : /\ die'[Client(r)] = "open" => die[Client(r)] = "open"
                          /\ die'[Client(r)] = "none" => die[Client(r)] = "none"
                          /\ die'[Client(r)] = "closed" => die[Client(r)] = "closed"
  BY <1>4, EndsAre DEF Closes
<1>10. UNCHANGED <<poolVars, next, streams>> /\ ~Busy(s, i)'
       /\ (Mapped(s, i) => Mapped(s, i)')
  BY <1>3, <1>6 DEF Busy, Mapped, sideVars
<1> QED BY <1>1, <1>2, <1>4, <1>5, <1>6, <1>7, <1>8, <1>9, <1>10, OwnerGoes DEF At, Owns

LEMMA InsertStep ==
  ASSUME SessionInv, NEW k \in Callers, Insert(k)
  PROVE  SessionInv'
<1>1. TypeOK /\ caller[k].pc = "insert" /\ Owns(k)
  BY DEF SessionInv, Insert, At, Owns
<1>2. PICK s \in Sessions, i \in Sids : s = caller[k].s /\ i = caller[k].i
  BY <1>1, OwnersAre DEF SessionInv
<1> DEFINE e == Client(s)
<1>3. /\ e \in Ends
      /\ UNCHANGED <<poolVars, die, wire, recv, sideVars, bufVars>>
  BY EndsAre DEF Insert
<1>4. CASE IsClosed(e)
  <2>1. /\ st' = [st EXCEPT ![e][i] = "closed"] /\ Goto(k, "idle", 0, 0)
        /\ UNCHANGED streams
    BY <1>2, <1>4 DEF Insert, Return, Nobody, Goto
  <2>2. /\ caller' \in [Callers -> [pc : {"idle", "get", "dial", "open", "syn", "insert",
                                         "using", "asked"},
                                    s : Sessions \cup {0}, i : 0..MaxSid]]
        /\ caller'[k].pc = "idle"
        /\ \A l \in Callers : l # k => caller'[l] = caller[l]
    BY <1>1, <2>1, CallerGoes, SessionsAssumption
  <2>3. /\ st' \in [Ends -> [Sids -> {"none", "open", "hookL", "hookN", "putL",
                                      "putN", "fin", "forget", "closed"}]]
        /\ st'[e][i] = "closed"
        /\ \A r \in Sessions, j \in Sids :
             r # s \/ j # i => st'[Client(r)][j] = st[Client(r)][j]
        /\ \A r \in Sessions : st'[Server(r)] = st[Server(r)]
    BY <1>1, <2>1, StreamTurns
  <2>4. TypeOK'
    BY <1>1, <1>3, <2>1, <2>2, <2>3 DEF TypeOK, poolVars, sideVars, bufVars
  <2>5. \A r \in Sessions, j \in Sids : (Asked(r, j) \/ Told(r, j))' =>
                                           Asked(r, j) \/ Told(r, j)
    BY <1>3, <2>3 DEF Asked, Told, sideVars, bufVars
  <2>6. UNCHANGED <<poolVars, next, streams, die>> /\ ~Busy(s, i)' /\ die'[e] # "open"
        /\ (Mapped(s, i) => Mapped(s, i)')
    BY <1>3, <1>4, <2>1, <2>3 DEF Busy, Mapped, IsClosed, sideVars
  <2> QED BY <1>1, <1>2, <2>2, <2>3, <2>4, <2>5, <2>6, OwnerGoes DEF At, Owns
<1>5. CASE ~IsClosed(e)
  <2>1. /\ streams' = [streams EXCEPT ![e] = @ \cup {i}] /\ Goto(k, "using", s, i)
        /\ UNCHANGED st
    BY <1>2, <1>5 DEF Insert
  <2>2. /\ caller' \in [Callers -> [pc : {"idle", "get", "dial", "open", "syn", "insert",
                                         "using", "asked"},
                                    s : Sessions \cup {0}, i : 0..MaxSid]]
        /\ caller'[k].pc = "using" /\ caller'[k].s = s /\ caller'[k].i = i
        /\ \A l \in Callers : l # k => caller'[l] = caller[l]
    BY <1>1, <2>1, CallerGoes, SessionsAssumption DEF Sids
  <2>3. /\ streams' \in [Ends -> SUBSET Sids] /\ i \in streams'[e]
        /\ \A r \in Sessions, j \in Sids :
             r # s \/ j # i => (j \in streams'[Client(r)] <=> j \in streams[Client(r)])
    BY <1>1, <1>3, <2>1, EndsAre, TypeTypes
  <2>4. TypeOK'
    BY <1>1, <1>3, <2>1, <2>2, <2>3 DEF TypeOK, poolVars, sideVars, bufVars
  <2>5. st[e][i] = "open" /\ i <= next[s]
    BY <1>1, <1>2, OwnersAre DEF SessionInv, Announced
  <2>6. \A r \in Sessions, j \in Sids : (Asked(r, j) \/ Told(r, j))' =>
                                           Asked(r, j) \/ Told(r, j)
    BY <1>3, <2>1 DEF Asked, Told, sideVars, bufVars
  <2>7. UNCHANGED <<poolVars, next, st, die>> /\ die[e] = "open" /\ Mapped(s, i)'
    BY <1>3, <1>5, <2>1, <2>3, <2>5 DEF Mapped, IsClosed, sideVars
  <2>8. Cared(s)'
    BY <2>5, <2>7 DEF Cared
  <2> QED BY <1>1, <1>2, <2>2, <2>3, <2>4, <2>6, <2>7, <2>8, OwnerGoes
          DEF At, Owns, Busy
<1> QED BY <1>4, <1>5

LEMMA WriteAddressStep ==
  ASSUME SessionInv, NEW k \in Callers, WriteAddress(k)
  PROVE  SessionInv'
<1>1. TypeOK /\ caller[k].pc = "using" /\ Owns(k)
  BY DEF SessionInv, WriteAddress, At, Owns
<1>2. PICK s \in Sessions, i \in Sids : s = caller[k].s /\ i = caller[k].i
  BY <1>1, OwnersAre DEF SessionInv
<1> DEFINE e == Client(s)
           f == Frame("PSH", i)
<1>3. /\ e \in Ends /\ f \in Frames /\ Write(e, f) /\ UNCHANGED die
      /\ Goto(k, "asked", s, i)
      /\ UNCHANGED <<poolVars, recv, streams, st, sideVars, buffering>>
  BY <1>2, EndsAre, FramesAre DEF WriteAddress, Write
<1>4. /\ wire' \in [Ends -> Seq(Frames)] /\ kept' \in [Sessions -> Seq(Frames)]
      /\ \A r \in Sessions :
           /\ Range(wire'[Server(r)]) \cup Range(kept'[r]) \subseteq
                Range(wire[Server(r)]) \cup Range(kept[r]) \cup {g \in {f} : r = s}
           /\ Range(wire'[Client(r)]) \subseteq Range(wire[Client(r)])
  <2>1. \A r \in Sessions : e # Server(r) /\ (e = Client(r) => r = s)
    BY EndsAre
  <2> HIDE DEF e, f
  <2>2. /\ wire' \in [Ends -> Seq(Frames)] /\ kept' \in [Sessions -> Seq(Frames)]
        /\ \A r \in Sessions :
             /\ Range(wire'[Server(r)]) \cup Range(kept'[r]) \subseteq
                  Range(wire[Server(r)]) \cup Range(kept[r]) \cup {g \in {f} : e = Client(r)}
             /\ Range(wire'[Client(r)]) \subseteq
                  Range(wire[Client(r)]) \cup {g \in {f} : e = Server(r)}
    BY <1>1, <1>3, WriteIs
  <2>3. \A r \in Sessions : /\ {g \in {f} : e = Client(r)} \subseteq {g \in {f} : r = s}
                            /\ {g \in {f} : e = Server(r)} = {}
    BY <2>1
  <2>4. ASSUME NEW r \in Sessions
        PROVE  /\ Range(wire'[Server(r)]) \cup Range(kept'[r]) \subseteq
                    Range(wire[Server(r)]) \cup Range(kept[r]) \cup {g \in {f} : r = s}
               /\ Range(wire'[Client(r)]) \subseteq Range(wire[Client(r)])
    BY <2>2, <2>3
  <2> QED BY <2>2, <2>4
<1>5. /\ caller' \in [Callers -> [pc : {"idle", "get", "dial", "open", "syn", "insert",
                                       "using", "asked"},
                                  s : Sessions \cup {0}, i : 0..MaxSid]]
      /\ caller'[k].pc = "asked" /\ caller'[k].s = s /\ caller'[k].i = i
      /\ \A l \in Callers : l # k => caller'[l] = caller[l]
  BY <1>1, <1>2, <1>3, CallerGoes, SessionsAssumption DEF Sids
<1>6. TypeOK'
  BY <1>1, <1>3, <1>4, <1>5 DEF TypeOK, poolVars, sideVars
<1>7. Mapped(s, i)'
  BY <1>1, <1>2, <1>3 DEF SessionInv, Announced, Mapped, IsClosed, sideVars
<1>8. ASSUME NEW r \in Sessions, NEW j \in Sids, (Asked(r, j) \/ Told(r, j))'
      PROVE  Asked(r, j) \/ Told(r, j) \/ (r = s /\ j = i)
  <2>1. f = Frame("PSH", j) => j = i
    BY DEF Frame
  <2> QED BY <1>3, <1>4, <1>8, <2>1 DEF Asked, Told, sideVars
<1>9. Cared(s) => Cared(s)'
  BY <1>1, <1>3, <1>5 DEF Cared, poolVars
<1> QED BY <1>1, <1>2, <1>3, <1>5, <1>6, <1>7, <1>8, <1>9, OwnerGoes
        DEF Busy, Mapped, IsClosed, At, sideVars

LEMMA CloseStreamStep ==
  ASSUME SessionInv, NEW k \in Callers, CloseStream(k)
  PROVE  SessionInv'
<1>1. TypeOK /\ caller[k].pc \in {"using", "asked"} /\ Owns(k)
  BY DEF SessionInv, CloseStream, At, Owns
<1>2. PICK s \in Sessions, i \in Sids : s = caller[k].s /\ i = caller[k].i
  BY <1>1, OwnersAre DEF SessionInv
<1> DEFINE e == Client(s)
<1>3. /\ e \in Ends /\ Goto(k, "idle", 0, 0)
      /\ st' = IF st[e][i] = "open" THEN [st EXCEPT ![e][i] = "hookN"] ELSE st
      /\ UNCHANGED <<poolVars, die, wire, recv, streams, sideVars, bufVars>>
  BY <1>2, EndsAre DEF CloseStream, Closing, Return, Nobody, Goto
<1>4. /\ caller' \in [Callers -> [pc : {"idle", "get", "dial", "open", "syn", "insert",
                                       "using", "asked"},
                                  s : Sessions \cup {0}, i : 0..MaxSid]]
      /\ caller'[k].pc = "idle"
      /\ \A l \in Callers : l # k => caller'[l] = caller[l]
  BY <1>1, <1>3, CallerGoes, SessionsAssumption
<1>5. /\ st' \in [Ends -> [Sids -> {"none", "open", "hookL", "hookN", "putL",
                                    "putN", "fin", "forget", "closed"}]]
      /\ st'[e][i] = IF st[e][i] = "open" THEN "hookN" ELSE st[e][i]
      /\ \A r \in Sessions, j \in Sids :
           r # s \/ j # i => st'[Client(r)][j] = st[Client(r)][j]
      /\ \A r \in Sessions : st'[Server(r)] = st[Server(r)]
  <2>1. CASE st[e][i] = "open"
    BY <1>1, <1>3, <2>1, StreamTurns
  <2>2. CASE st[e][i] # "open"
    BY <1>1, <1>3, <2>2, TypeTypes
  <2> QED BY <2>1, <2>2
<1>6. TypeOK'
  BY <1>1, <1>3, <1>4, <1>5 DEF TypeOK, poolVars, sideVars, bufVars
<1>7. \A r \in Sessions, j \in Sids : (Asked(r, j) \/ Told(r, j))' =>
                                         Asked(r, j) \/ Told(r, j)
  BY <1>3, <1>5 DEF Asked, Told, sideVars, bufVars
<1>8. Cared(s) => Cared(s)'
  <2>1. CASE s \in doomed
    BY <1>3, <2>1 DEF Cared, poolVars
  <2>2. CASE \E l \in Callers : caller[l].pc \in {"open", "syn", "insert"} /\ caller[l].s = s
    BY <1>1, <1>4, <2>2 DEF Cared
  <2>3. CASE \E j \in Sids : st[e][j] \in {"open", "hookL", "hookN"}
    <3>1. \E j \in Sids : st'[e][j] \in {"open", "hookL", "hookN"}
      BY <1>5, <2>3
    <3> QED BY <3>1 DEF Cared
  <2> QED BY <2>1, <2>2, <2>3 DEF Cared
<1>9. /\ UNCHANGED <<poolVars, next, streams, die>>
      /\ Busy(s, i)' => Busy(s, i)
      /\ Mapped(s, i) => Mapped(s, i)'
  BY <1>3, <1>5 DEF Busy, Mapped, IsClosed, sideVars
<1> QED BY <1>1, <1>2, <1>4, <1>5, <1>6, <1>7, <1>8, <1>9, OwnerGoes DEF At, Owns
-----------------------------------------------------------------------------
(* The client's steps that no caller takes *)

(* No stream is opened or put into the map, and only an open stream that   *)
(* is in the map is closed; what comes back to the pool was busy and is    *)
(* not any more.                                                           *)
LEMMA SessionMoves ==
  ASSUME SessionInv, TypeOK', UNCHANGED <<caller, next>>, NoNews, InCustody',
         \A r \in pool' \ pool : /\ \E j \in Sids : Busy(r, j)
                                 /\ \A j \in Sids : ~Busy(r, j)',
         \A r \in Sessions, j \in Sids :
           /\ Busy(r, j)' => Busy(r, j)
           /\ st[Client(r)][j] = "none" => st'[Client(r)][j] = "none"
           /\ st[Client(r)][j] = "open" /\ j \notin streams[Client(r)] =>
                st'[Client(r)][j] = "open"
           /\ j \in streams'[Client(r)] => j \in streams[Client(r)]
           /\ Mapped(r, j) => Mapped(r, j)',
         \A r \in Sessions :
           /\ die'[Client(r)] = "none" => die[Client(r)] = "none"
           /\ die'[Client(r)] = "closed" =>
                die[Client(r)] = "closed" \/ streams'[Client(r)] = {}
  PROVE  SessionInv'
<1>1. TypeOK
  BY DEF SessionInv
<1>2. \A l \in Callers, r \in Sessions : Holds(l, r)' <=> Holds(l, r)
  BY DEF Holds, At
<1>3. \A r \in pool' : r \in Sessions
  BY DEF TypeOK
<1>4. OneOwner'
  BY <1>2, <1>3 DEF SessionInv, OneOwner
<1>5. Fresh'
  <2>1. ASSUME NEW r \in Sessions, die'[Client(r)] = "none"
        PROVE  next'[r] = 0 /\ r \notin pool' /\ \A l \in Callers : ~Holds(l, r)'
    <3>1. next[r] = 0 /\ r \notin pool /\ \A l \in Callers : ~Holds(l, r)
      BY <2>1 DEF SessionInv, Fresh
    <3>2. \A j \in Sids : j > 0
      BY SessionsAssumption DEF Sids
    <3>3. \A j \in Sids : ~Busy(r, j)
      BY <3>1, <3>2 DEF SessionInv, Fresh, Busy
    <3> QED BY <1>2, <3>1, <3>3
  <2> QED BY <2>1 DEF SessionInv, Fresh
<1>6. Announced'
  <2>1. \A l \in Callers : Owns(l) => caller[l].s \in Sessions /\ caller[l].i \in Sids
    BY <1>1, OwnersAre DEF SessionInv
  <2> QED BY <1>1, <2>1 DEF SessionInv, Announced, Owns, At
<1>7. MapsEmptied'
  <2>1. ASSUME NEW r \in Sessions, die[Client(r)] = "closed" PROVE streams'[Client(r)] = {}
    <3>1. streams[Client(r)] = {}
      BY <2>1 DEF SessionInv, MapsEmptied
    <3>2. streams'[Client(r)] \subseteq Sids
      BY EndsAre DEF TypeOK
    <3> QED BY <3>1, <3>2
  <2> QED BY <2>1 DEF MapsEmptied
<1>8. AnswersFollow'
  BY AnswersKept
<1> QED BY <1>4, <1>5, <1>6, <1>7, <1>8 DEF SessionInv

LEMMA RunDieHookStep ==
  ASSUME SessionInv, NEW s \in Sessions, RunDieHook(s)
  PROVE  SessionInv'
<1> DEFINE e == Client(s)
<1>1. /\ TypeOK /\ e \in Ends /\ die[e] = "hook" /\ die' = [die EXCEPT ![e] = "streams"]
      /\ UNCHANGED <<client, caller, wire, recv, streams, st, version, said,
                     settled, next, handler, bufVars>>
      /\ pool' = pool \ {s} /\ known' = known \ {s} /\ doomed' = doomed \ {s}
  BY EndsAre DEF SessionInv, RunDieHook
<1>2. /\ die' \in [Ends -> {"none", "open", "hook", "streams", "closed"}]
      /\ die'[e] = "streams"
      /\ \A r \in Sessions : r # s => die'[Client(r)] = die[Client(r)]
  BY <1>1, EndsAre DEF TypeOK
<1>3. TypeOK'
  BY <1>1, <1>2 DEF TypeOK, RunDieHook, bufVars
<1>4. NoNews
  BY <1>1 DEF NoNews, Asked, Told, bufVars
<1>5. InCustody'
  BY <1>1, <1>2 DEF SessionInv, InCustody, ClosedClientKeepsNoSession
<1>6. \A r \in Sessions : /\ die'[Client(r)] = "open" => die[Client(r)] = "open"
                          /\ die'[Client(r)] = "none" => die[Client(r)] = "none"
                          /\ die'[Client(r)] = "closed" => die[Client(r)] = "closed"
  BY <1>1, <1>2
<1>7. \A r \in Sessions, j \in Sids : Mapped(r, j) => Mapped(r, j)'
  BY <1>1, <1>6 DEF Mapped, IsClosed
<1> QED BY <1>1, <1>3, <1>4, <1>5, <1>6, <1>7, SessionMoves DEF Busy

LEMMA ClientClosesStep ==
  ASSUME SessionInv, NEW s \in Sessions, CloseStreams(Client(s))
  PROVE  SessionInv'
<1> DEFINE e == Client(s)
<1>1. TypeOK /\ e \in Ends /\ e[2] = "client"
  BY EndsAre DEF SessionInv
<1>2. /\ die[e] = "streams" /\ die' = [die EXCEPT ![e] = "closed"]
      /\ wire' = [wire EXCEPT ![e] = << >>]
      /\ streams' = [streams EXCEPT ![e] = {}]
      /\ st' = [st EXCEPT ![e] = [i \in Sids |->
                  IF i \in streams[e] /\ @[i] = "open" THEN "closed" ELSE @[i]]]
      /\ UNCHANGED <<poolVars, caller, recv, sideVars, bufVars>>
  BY <1>1 DEF CloseStreams, sideVars
<1>3. /\ die' \in [Ends -> {"none", "open", "hook", "streams", "closed"}]
      /\ die'[e] = "closed" /\ streams'[e] = {} /\ streams' \in [Ends -> SUBSET Sids]
      /\ \A r \in Sessions : r # s => /\ die'[Client(r)] = die[Client(r)]
                                      /\ st'[Client(r)] = st[Client(r)]
                                      /\ streams'[Client(r)] = streams[Client(r)]
      /\ \A r \in Sessions : st'[Server(r)] = st[Server(r)]
      /\ st' \in [Ends -> [Sids -> {"none", "open", "hookL", "hookN", "putL",
                                    "putN", "fin", "forget", "closed"}]]
      /\ \A j \in Sids : st'[e][j] = IF j \in streams[e] /\ st[e][j] = "open"
                                     THEN "closed" ELSE st[e][j]
  <2>1. \A r \in Sessions : /\ Client(r) \in Ends /\ Server(r) \in Ends
                            /\ Server(r) # e /\ (r # s => Client(r) # e)
    BY EndsAre
  <2> HIDE DEF e
  <2>2. die \in [Ends -> {"none", "open", "hook", "streams", "closed"}]
    BY <1>1 DEF TypeOK
  <2> QED BY <1>1, <1>2, <2>1, <2>2, TypeTypes
<1>4. /\ wire' \in [Ends -> Seq(Frames)]
      /\ \A x \in Ends : Range(wire'[x]) \subseteq Range(wire[x])
  <2>1. << >> \in Seq(Frames) /\ Range(<< >>) = {}
    BY DEF Range
  <2> QED BY <1>1, <1>2, <2>1 DEF TypeOK
<1>5. TypeOK'
  BY <1>1, <1>2, <1>3, <1>4 DEF TypeOK, poolVars, sideVars, bufVars
<1>6. NoNews
  BY <1>2, <1>3, <1>4, EndsAre DEF NoNews, Asked, Told, sideVars, bufVars
<1>7. InCustody'
  <2>1. ASSUME NEW r \in Sessions, r # s, Cared(r) PROVE Cared(r)'
    BY <1>2, <1>3, <2>1 DEF Cared, poolVars
  <2> QED BY <1>2, <1>3, <2>1, CustodyKept DEF poolVars
<1>8. \A r \in Sessions, j \in Sids :
        /\ Busy(r, j)' => Busy(r, j)
        /\ st[Client(r)][j] = "none" => st'[Client(r)][j] = "none"
        /\ st[Client(r)][j] = "open" /\ j \notin streams[Client(r)] =>
             st'[Client(r)][j] = "open"
        /\ j \in streams'[Client(r)] => j \in streams[Client(r)]
  BY <1>3 DEF Busy
<1>9. \A r \in Sessions, j \in Sids : Mapped(r, j) => Mapped(r, j)'
  BY <1>2, <1>3 DEF Mapped, IsClosed, sideVars
<1>10. \A r \in Sessions :
         /\ die'[Client(r)] = "none" => die[Client(r)] = "none"
         /\ die'[Client(r)] = "closed" =>
              die[Client(r)] = "closed" \/ streams'[Client(r)] = {}
  BY <1>3
<1>11. UNCHANGED <<caller, next>> /\ pool' \ pool = {}
  BY <1>2 DEF poolVars, sideVars
<1> QED BY <1>5, <1>6, <1>7, <1>8, <1>9, <1>10, <1>11, SessionMoves

LEMMA CloseDoomedStep ==
  ASSUME SessionInv, NEW s \in Sessions, CloseDoomed(s)
  PROVE  SessionInv'
<1> DEFINE e == Client(s)
<1>1. /\ TypeOK /\ e \in Ends /\ die' = Dying({e}) /\ doomed' = doomed \ {s}
      /\ UNCHANGED <<client, pool, known, caller, wire, recv, streams, st, sideVars,
                     bufVars>>
  BY EndsAre DEF SessionInv, CloseDoomed
<1>2. Closes(e) /\ die'[e] # "open"
  BY <1>1, DyingCloses
<1>3. TypeOK'
  BY <1>1, <1>2 DEF TypeOK, Closes, sideVars, bufVars
<1>4. NoNews
  BY <1>1 DEF NoNews, Asked, Told, sideVars, bufVars
<1>5. \A r \in Sessions : /\ die'[Client(r)] = "open" => die[Client(r)] = "open" /\ r # s
                          /\ die'[Client(r)] = "none" => die[Client(r)] = "none"
                          /\ die'[Client(r)] = "closed" => die[Client(r)] = "closed"
  BY <1>2, EndsAre DEF Closes
<1>6. InCustody'
  <2>1. ASSUME NEW r \in Sessions, r # s, Cared(r) PROVE Cared(r)'
    BY <1>1, <2>1 DEF Cared
  <2> QED BY <1>1, <1>5, <2>1, CustodyKept
<1>7. \A r \in Sessions, j \in Sids : Mapped(r, j) => Mapped(r, j)'
  BY <1>1, <1>5 DEF Mapped, IsClosed, sideVars
<1> QED BY <1>1, <1>3, <1>4, <1>5, <1>6, <1>7, SessionMoves DEF Busy, sideVars

LEMMA IdleCleanupStep ==
  ASSUME SessionInv, NEW S \in SUBSET pool, IdleCleanup(S)
  PROVE  SessionInv'
<1>1. /\ TypeOK /\ pool' = pool \ S /\ doomed \subseteq doomed' /\ doomed' \subseteq Sessions
      /\ UNCHANGED <<client, known, caller, die, wire, recv, streams, st, sideVars,
                     bufVars>>
  BY DEF SessionInv, IdleCleanup, TypeOK
<1>2. TypeOK'
  BY <1>1 DEF TypeOK, sideVars, bufVars
<1>3. NoNews
  BY <1>1 DEF NoNews, Asked, Told, sideVars, bufVars
<1>4. InCustody'
  <2>1. ASSUME NEW r \in Sessions, Cared(r) PROVE Cared(r)'
    BY <1>1, <2>1 DEF Cared
  <2> QED BY <1>1, <2>1, CustodyKept
<1>5. \A r \in Sessions, j \in Sids : Mapped(r, j) => Mapped(r, j)'
  BY <1>1 DEF Mapped, IsClosed, sideVars
<1> QED BY <1>1, <1>2, <1>3, <1>4, <1>5, SessionMoves DEF Busy, sideVars

LEMMA CancelClientStep ==
  ASSUME SessionInv, CancelClient
  PROVE  SessionInv'
<1>1. /\ TypeOK /\ client = "open" /\ client' = "dying"
      /\ UNCHANGED <<pool, known, doomed, caller, die, wire, recv, streams, st,
                     sideVars, bufVars>>
  BY DEF SessionInv, CancelClient
<1>2. TypeOK'
  BY <1>1 DEF TypeOK, sideVars, bufVars
<1>3. NoNews
  BY <1>1 DEF NoNews, Asked, Told, sideVars, bufVars
<1>4. InCustody'
  BY <1>1 DEF SessionInv, InCustody, ClosedClientKeepsNoSession
<1>5. \A r \in Sessions, j \in Sids : Mapped(r, j) => Mapped(r, j)'
  BY <1>1 DEF Mapped, IsClosed, sideVars
<1> QED BY <1>1, <1>2, <1>3, <1>4, <1>5, SessionMoves DEF Busy, sideVars

LEMMA TakeSessionsStep ==
  ASSUME SessionInv, TakeSessions
  PROVE  SessionInv'
<1>1. /\ TypeOK /\ client = "dying" /\ client' = "closed" /\ known' = {}
      /\ doomed' = doomed \cup {s \in known : ~IsClosed(Client(s))}
      /\ UNCHANGED <<pool, caller, die, wire, recv, streams, st, sideVars, bufVars>>
  BY DEF SessionInv, TakeSessions
<1>2. TypeOK'
  BY <1>1 DEF TypeOK, sideVars, bufVars
<1>3. NoNews
  BY <1>1 DEF NoNews, Asked, Told, sideVars, bufVars
<1>4. InCustody'
  <2>1. ASSUME NEW r \in Sessions, die'[Client(r)] = "open" PROVE r \in doomed'
    BY <1>1, <2>1 DEF SessionInv, InCustody, IsClosed
  <2> QED BY <1>1, <2>1 DEF InCustody, ClosedClientKeepsNoSession
<1>5. \A r \in Sessions, j \in Sids : Mapped(r, j) => Mapped(r, j)'
  BY <1>1 DEF Mapped, IsClosed, sideVars
<1> QED BY <1>1, <1>2, <1>3, <1>4, <1>5, SessionMoves DEF Busy, sideVars

(* A stream of the client comes closer to its end, and maybe out of the map. *)
LEMMA StreamEnds ==
  ASSUME SessionInv, TypeOK', UNCHANGED <<caller, next>>, NoNews, InCustody',
         NEW s \in Sessions, NEW i \in Sids,
         \/ st'[Client(s)][i] = st[Client(s)][i]
         \/ /\ st'[Client(s)][i] \notin {"none", "open"}
            /\ st[Client(s)][i] # "none"
            /\ st[Client(s)][i] = "open" => i \in streams[Client(s)]
            /\ Busy(s, i)' => Busy(s, i),
         i \in streams'[Client(s)] => i \in streams[Client(s)],
         i \in streams[Client(s)] \ streams'[Client(s)] => st'[Client(s)][i] # "open",
         \A r \in Sessions, j \in Sids : r # s \/ j # i =>
           /\ st'[Client(r)][j] = st[Client(r)][j]
           /\ j \in streams'[Client(r)] <=> j \in streams[Client(r)],
         \A r \in Sessions :
           /\ die'[Client(r)] = "open" => die[Client(r)] = "open"
           /\ die'[Client(r)] = "none" => die[Client(r)] = "none"
           /\ die'[Client(r)] = "closed" => die[Client(r)] = "closed",
         pool' = pool \/ (pool' = pool \cup {s} /\ Busy(s, i) /\ ~Busy(s, i)')
  PROVE  SessionInv'
<1>1. ASSUME NEW r \in Sessions, NEW j \in Sids
      PROVE  /\ Busy(r, j)' => Busy(r, j)
             /\ st[Client(r)][j] = "none" => st'[Client(r)][j] = "none"
             /\ st[Client(r)][j] = "open" /\ j \notin streams[Client(r)] =>
                  st'[Client(r)][j] = "open"
             /\ j \in streams'[Client(r)] => j \in streams[Client(r)]
             /\ Mapped(r, j) => Mapped(r, j)'
  <2>1. CASE r = s /\ j = i
    BY <2>1 DEF Busy, Mapped, IsClosed
  <2>2. CASE r # s \/ j # i
    BY <2>2 DEF Busy, Mapped, IsClosed
  <2> QED BY <2>1, <2>2
<1>2. ASSUME NEW r \in pool' \ pool
      PROVE  (\E j \in Sids : Busy(r, j)) /\ \A j \in Sids : ~Busy(r, j)'
  <2>1. r = s /\ Busy(s, i) /\ ~Busy(s, i)'
    BY <1>2
  <2>2. \A j \in Sids : Busy(s, j) => j = i
    BY <2>1 DEF SessionInv, OneOwner
  <2> QED BY <1>1, <2>1, <2>2
<1> QED BY <1>1, <1>2, SessionMoves

LEMMA HandleSynAckStep ==
  ASSUME SessionInv, NEW s \in Sessions, HandleSynAck(s)
  PROVE  SessionInv'
<1> DEFINE e == Client(s)
<1>1. TypeOK /\ e \in Ends /\ Closing(e) = "hookN"
  BY EndsAre DEF SessionInv, Closing
<1>2. PICK i \in Sids : i = Sid(e)
  BY <1>1, ReadingIs DEF HandleSynAck
<1>3. /\ wire' \in [Ends -> Seq(Frames)]
      /\ \A x \in Ends : Range(wire'[x]) \subseteq Range(wire[x])
  BY <1>1, ReadingIs DEF HandleSynAck, Taken
<1>4. recv' \in [Ends -> Frames \cup {Waiting, Ending, Done}]
  BY <1>1, HandledIs DEF HandleSynAck
<1>5. /\ \/ st' = st
         \/ ~NoStream(e, i) /\ st' = [st EXCEPT ![e][i] = "hookN"]
      /\ watch' = [watch EXCEPT ![s] = FALSE]
      /\ UNCHANGED <<poolVars, caller, die, streams, version, said, settled,
                     next, handler, bufVars>>
  BY <1>1, <1>2 DEF HandleSynAck
<1>6. /\ st' \in [Ends -> [Sids -> {"none", "open", "hookL", "hookN", "putL",
                                    "putN", "fin", "forget", "closed"}]]
      /\ st' = st \/ (~NoStream(e, i) /\ st'[e][i] = "hookN")
      /\ \A r \in Sessions, j \in Sids :
           r # s \/ j # i => st'[Client(r)][j] = st[Client(r)][j]
      /\ \A r \in Sessions : st'[Server(r)] = st[Server(r)]
  <2>1. CASE st' = st
    BY <1>1, <2>1, TypeTypes
  <2>2. CASE ~NoStream(e, i) /\ st' = [st EXCEPT ![e][i] = "hookN"]
    BY <1>1, <2>2, StreamTurns
  <2> QED BY <1>5, <2>1, <2>2
<1>7. TypeOK'
  BY <1>1, <1>3, <1>4, <1>5, <1>6 DEF TypeOK, poolVars, bufVars
<1>8. NoNews
  BY <1>3, <1>5, <1>6, EndsAre DEF NoNews, Asked, Told, bufVars
<1>9. InCustody'
  <2>1. ASSUME NEW r \in Sessions, Cared(r) PROVE Cared(r)'
    <3>1. CASE \E j \in Sids : st[Client(r)][j] \in {"open", "hookL", "hookN"}
      <4>1. \E j \in Sids : st'[Client(r)][j] \in {"open", "hookL", "hookN"}
        BY <1>6, <3>1
      <4> QED BY <4>1 DEF Cared
    <3> QED BY <1>5, <2>1, <3>1 DEF Cared, poolVars
  <2> QED BY <1>5, <2>1, CustodyKept DEF poolVars
<1> QED BY <1>5, <1>6, <1>7, <1>8, <1>9, StreamEnds DEF NoStream, Busy, poolVars

LEMMA ClientFinStep ==
  ASSUME SessionInv, NEW s \in Sessions, HandleFin(Client(s))
  PROVE  SessionInv'
<1> DEFINE e == Client(s)
<1>1. TypeOK /\ e \in Ends /\ e[2] = "client"
  BY EndsAre DEF SessionInv
<1>2. PICK i \in Sids : i = Sid(e)
  BY <1>1, ReadingIs DEF HandleFin
<1>3. /\ wire' \in [Ends -> Seq(Frames)]
      /\ \A x \in Ends : Range(wire'[x]) \subseteq Range(wire[x])
  BY <1>1, ReadingIs DEF HandleFin, Taken
<1>4. recv' \in [Ends -> Frames \cup {Waiting, Ending, Done}]
  BY <1>1, HandledIs DEF HandleFin
<1>5. /\ \/ NoStream(e, i) /\ st' = st
         \/ ~NoStream(e, i) /\ st' = [st EXCEPT ![e][i] = "hookL"]
      /\ streams' = [streams EXCEPT ![e] = @ \ {i}]
      /\ UNCHANGED <<poolVars, caller, die, version, said, settled, watch, next,
                     handler, bufVars>>
  BY <1>1, <1>2 DEF HandleFin
<1>6. /\ st' \in [Ends -> [Sids -> {"none", "open", "hookL", "hookN", "putL",
                                    "putN", "fin", "forget", "closed"}]]
      /\ (NoStream(e, i) /\ st' = st) \/ (~NoStream(e, i) /\ st'[e][i] = "hookL")
      /\ \A r \in Sessions, j \in Sids :
           r # s \/ j # i => st'[Client(r)][j] = st[Client(r)][j]
      /\ \A r \in Sessions : st'[Server(r)] = st[Server(r)]
  <2>1. CASE NoStream(e, i) /\ st' = st
    BY <1>1, <2>1, TypeTypes
  <2>2. CASE ~NoStream(e, i) /\ st' = [st EXCEPT ![e][i] = "hookL"]
    BY <1>1, <2>2, StreamTurns
  <2> QED BY <1>5, <2>1, <2>2
<1>7. /\ streams' \in [Ends -> SUBSET Sids] /\ i \notin streams'[e]
      /\ \A r \in Sessions, j \in Sids :
           r # s \/ j # i => (j \in streams'[Client(r)] <=> j \in streams[Client(r)])
  BY <1>1, <1>5, EndsAre, TypeTypes
<1>8. TypeOK'
  BY <1>1, <1>3, <1>4, <1>5, <1>6, <1>7 DEF TypeOK, poolVars, bufVars
<1>9. NoNews
  BY <1>3, <1>5, <1>6, EndsAre DEF NoNews, Asked, Told, bufVars
<1>10. InCustody'
  <2>1. ASSUME NEW r \in Sessions, Cared(r) PROVE Cared(r)'
    <3>1. CASE \E j \in Sids : st[Client(r)][j] \in {"open", "hookL", "hookN"}
      <4>1. \E j \in Sids : st'[Client(r)][j] \in {"open", "hookL", "hookN"}
        BY <1>6, <3>1
      <4> QED BY <4>1 DEF Cared
    <3> QED BY <1>5, <2>1, <3>1 DEF Cared, poolVars
  <2> QED BY <1>5, <2>1, CustodyKept DEF poolVars
<1> QED BY <1>5, <1>6, <1>7, <1>8, <1>9, <1>10, StreamEnds DEF NoStream, Busy, poolVars

LEMMA ClientSendsFinStep ==
  ASSUME SessionInv, NEW s \in Sessions, NEW i \in Sids, SendFin(Client(s), i)
  PROVE  SessionInv'
<1> DEFINE e == Client(s)
           f == Frame("FIN", i)
<1>1. TypeOK /\ e \in Ends /\ f \in Frames /\ \A j \in Sids : f # Frame("PSH", j)
  BY EndsAre, FramesAre DEF SessionInv
<1>2. /\ st[e][i] = "fin" /\ st' = [st EXCEPT ![e][i] = "closed"]
      /\ streams' = streams \/ streams' = [streams EXCEPT ![e] = @ \ {i}]
      /\ \/ UNCHANGED <<die, wire, kept>>
         \/ Write(e, f) \/ WriteFails(e)
      /\ UNCHANGED <<poolVars, caller, recv, sideVars, buffering>>
  BY DEF SendFin
<1>3. /\ wire' \in [Ends -> Seq(Frames)] /\ kept' \in [Sessions -> Seq(Frames)]
      /\ Closes(e)
      /\ \A r \in Sessions :
           /\ Range(wire'[Server(r)]) \cup Range(kept'[r]) \subseteq
                Range(wire[Server(r)]) \cup Range(kept[r]) \cup {f}
           /\ Range(wire'[Client(r)]) \subseteq Range(wire[Client(r)])
  <2>1. \A r \in Sessions : e # Server(r)
    BY EndsAre
  <2> HIDE DEF e, f
  <2>2. CASE UNCHANGED <<die, wire, kept>>
    BY <1>1, <2>2, DyingCloses DEF TypeOK
  <2>3. CASE Write(e, f) \/ WriteFails(e)
    BY <1>1, <2>1, <2>3, WriteIs
  <2> QED BY <1>2, <2>2, <2>3
<1>4. /\ st' \in [Ends -> [Sids -> {"none", "open", "hookL", "hookN", "putL",
                                    "putN", "fin", "forget", "closed"}]]
      /\ st'[e][i] = "closed"
      /\ \A r \in Sessions, j \in Sids :
           r # s \/ j # i => st'[Client(r)][j] = st[Client(r)][j]
      /\ \A r \in Sessions : st'[Server(r)] = st[Server(r)]
  BY <1>1, <1>2, StreamTurns
<1>5. /\ streams' \in [Ends -> SUBSET Sids]
      /\ i \in streams'[e] => i \in streams[e]
      /\ \A r \in Sessions, j \in Sids :
           r # s \/ j # i => (j \in streams'[Client(r)] <=> j \in streams[Client(r)])
  BY <1>1, <1>2, EndsAre, TypeTypes
<1>6. TypeOK'
  BY <1>1, <1>2, <1>3, <1>4, <1>5 DEF TypeOK, Closes, poolVars, sideVars
<1>7. NoNews
  BY <1>1, <1>2, <1>3, <1>4 DEF NoNews, Asked, Told, sideVars
<1>8. \A r \in Sessions : /\ die'[Client(r)] = "open" => die[Client(r)] = "open"
                          /\ die'[Client(r)] = "none" => die[Client(r)] = "none"
                          /\ die'[Client(r)] = "closed" => die[Client(r)] = "closed"
  BY <1>3, EndsAre DEF Closes
<1>9. InCustody'
  <2>1. ASSUME NEW r \in Sessions, Cared(r) PROVE Cared(r)'
    <3>1. CASE \E j \in Sids : st[Client(r)][j] \in {"open", "hookL", "hookN"}
      <4>1. \E j \in Sids : st'[Client(r)][j] \in {"open", "hookL", "hookN"}
        BY <1>2, <1>4, <3>1
      <4> QED BY <4>1 DEF Cared
    <3> QED BY <1>2, <2>1, <3>1 DEF Cared, poolVars
  <2> QED BY <1>2, <1>8, <2>1, CustodyKept DEF poolVars
<1> QED BY <1>2, <1>4, <1>5, <1>6, <1>7, <1>8, <1>9, StreamEnds
        DEF Busy, poolVars, sideVars

LEMMA StreamHookStep ==
  ASSUME SessionInv, NEW s \in Sessions, NEW i \in Sids, StreamHook(s, i)
  PROVE  SessionInv'
<1> DEFINE e == Client(s)
<1>1. /\ TypeOK /\ e \in Ends /\ st[e][i] \in {"hookL", "hookN"}
      /\ doomed' = IF ~IsClosed(e) /\ client # "open" THEN doomed \cup {s} ELSE doomed
      /\ UNCHANGED <<client, pool, known, caller, die, wire, recv, streams,
                     sideVars, bufVars>>
  BY EndsAre DEF SessionInv, StreamHook
<1>2. PICK c \in {"fin", "closed", "putL", "putN"} : st' = [st EXCEPT ![e][i] = c]
  BY DEF StreamHook, AfterHook
<1>3. c \in {"putL", "putN"} => client = "open"
  BY <1>1, <1>2, TypeTypes DEF StreamHook, AfterHook
<1>4. /\ st' \in [Ends -> [Sids -> {"none", "open", "hookL", "hookN", "putL",
                                    "putN", "fin", "forget", "closed"}]]
      /\ st'[e][i] = c
      /\ \A r \in Sessions, j \in Sids :
           r # s \/ j # i => st'[Client(r)][j] = st[Client(r)][j]
      /\ \A r \in Sessions : st'[Server(r)] = st[Server(r)]
  BY <1>1, <1>2, StreamTurns
<1>5. TypeOK'
  BY <1>1, <1>4 DEF TypeOK, sideVars, bufVars
<1>6. NoNews
  BY <1>1, <1>4 DEF NoNews, Asked, Told, sideVars, bufVars
<1>7. InCustody'
  <2>1. CASE client = "open"
    BY <1>1, <2>1 DEF SessionInv, InCustody, ClosedClientKeepsNoSession
  <2>2. CASE client # "open"
    <3>1. ASSUME NEW r \in Sessions, die'[Client(r)] = "open", Cared(r) PROVE Cared(r)'
      <4>1. CASE r = s
        BY <1>1, <2>2, <3>1, <4>1 DEF Cared, IsClosed
      <4>2. CASE r # s
        BY <1>1, <1>4, <3>1, <4>2 DEF Cared
      <4> QED BY <4>1, <4>2
    <3> QED BY <1>1, <3>1, CustodyKept
  <2> QED BY <2>1, <2>2
<1> QED BY <1>1, <1>4, <1>5, <1>6, <1>7, StreamEnds DEF Busy, sideVars

LEMMA PutBackStep ==
  ASSUME SessionInv, NEW s \in Sessions, NEW i \in Sids, PutBack(s, i)
  PROVE  SessionInv'
<1> DEFINE e == Client(s)
<1>1. /\ TypeOK /\ e \in Ends /\ st[e][i] \in {"putL", "putN"} /\ pool' = pool \cup {s}
      /\ UNCHANGED <<client, known, doomed, caller, die, wire, recv, streams,
                     sideVars, bufVars>>
  BY EndsAre DEF SessionInv, PutBack
<1>2. PICK c \in {"fin", "closed"} : st' = [st EXCEPT ![e][i] = c]
  BY DEF PutBack, AfterHook
<1>3. /\ st' \in [Ends -> [Sids -> {"none", "open", "hookL", "hookN", "putL",
                                    "putN", "fin", "forget", "closed"}]]
      /\ st'[e][i] = c
      /\ \A r \in Sessions, j \in Sids :
           r # s \/ j # i => st'[Client(r)][j] = st[Client(r)][j]
      /\ \A r \in Sessions : st'[Server(r)] = st[Server(r)]
  BY <1>1, <1>2, StreamTurns
<1>4. TypeOK'
  BY <1>1, <1>3 DEF TypeOK, sideVars, bufVars
<1>5. NoNews
  BY <1>1, <1>3 DEF NoNews, Asked, Told, sideVars, bufVars
<1>6. InCustody'
  <2>1. ASSUME NEW r \in Sessions, Cared(r) PROVE Cared(r)'
    <3>1. CASE \E j \in Sids : st[Client(r)][j] \in {"open", "hookL", "hookN"}
      <4>1. \E j \in Sids : st'[Client(r)][j] \in {"open", "hookL", "hookN"}
        BY <1>1, <1>3, <3>1
      <4> QED BY <4>1 DEF Cared
    <3> QED BY <1>1, <2>1, <3>1 DEF Cared
  <2> QED BY <1>1, <2>1, CustodyKept
<1>7. Busy(s, i) /\ ~Busy(s, i)'
  BY <1>1, <1>3 DEF Busy
<1> QED BY <1>1, <1>3, <1>4, <1>5, <1>6, <1>7, StreamEnds DEF sideVars
-----------------------------------------------------------------------------
(* The invariant *)

LEMMA InitHolds == Init => SessionInv
<1> SUFFICES ASSUME Init PROVE SessionInv
  OBVIOUS
<1>1. /\ \A r \in Sessions : /\ Client(r) \in Ends /\ Server(r) \in Ends
                             /\ die[Client(r)] = "none" /\ next[r] = 0
                             /\ wire[Client(r)] = << >> /\ wire[Server(r)] = << >>
                             /\ kept[r] = << >> /\ streams[Client(r)] = {}
                             /\ \A i \in Sids : /\ st[Client(r)][i] = "none"
                                                /\ st[Server(r)][i] = "none"
                                                /\ handler[r][i] = "none"
      /\ \A k \in Callers : caller[k].pc = "idle"
      /\ << >> \in Seq(Frames) /\ Range(<< >>) = {}
  BY EndsAre DEF Init, Nobody, Range
<1>2. TypeOK
  BY <1>1, SessionsAssumption DEF Init, TypeOK, Nobody
<1>3. OneOwner /\ Fresh /\ Announced /\ MapsEmptied
  BY <1>1 DEF Init, OneOwner, Fresh, Announced, MapsEmptied, Busy, Holds, At, Owns
<1>4. AnswersFollow
  BY <1>1 DEF AnswersFollow, Asked, Told
<1>5. InCustody
  BY <1>1 DEF Init, InCustody, ClosedClientKeepsNoSession
<1> QED BY <1>2, <1>3, <1>4, <1>5 DEF SessionInv

LEMMA CallsKeep ==
  ASSUME SessionInv, NEW k \in Callers, Calls(k)
  PROVE  SessionInv'
BY CreateStreamStep, GetIdleSessionStep, DialFailsStep, DialStep, OpenStreamStep,
   OpenStreamFailsStep, SendSynStep, SendSynFailsStep, InsertStep, WriteAddressStep,
   CloseStreamStep
   DEF Calls

LEMMA HandlesKeep ==
  ASSUME SessionInv, NEW e \in Ends, Handles(e)
  PROVE  SessionInv'
<1>1. PICK s \in Sessions : e = Client(s) \/ e = Server(s)
  BY EndsSplit
<1>2. e[1] = s
  BY <1>1, EndsAre
<1> QED BY <1>1, <1>2, ServerFinStep, ClientFinStep, HandleSettingsStep, ReadSynStep,
           HandleSynStep, RefuseSynStep, DeliverStep, HandleSynAckStep,
           HandleServerSettingsStep, HandleAlertStep
        DEF Handles

LEMMA StreamsKeep ==
  ASSUME SessionInv, NEW e \in Ends, NEW i \in Sids, Streams(e, i)
  PROVE  SessionInv'
<1>1. PICK s \in Sessions : e = Client(s) \/ e = Server(s)
  BY EndsSplit
<1>2. e[1] = s
  BY <1>1, EndsAre
<1> QED BY <1>1, <1>2, ServerSendsFinStep, ClientSendsFinStep, StreamHookStep,
           PutBackStep, HandlerClosesStep, ReportStep
        DEF Streams

LEMMA CloseRunsKeep ==
  ASSUME SessionInv, NEW e \in Ends, CloseRuns(e)
  PROVE  SessionInv'
<1>1. PICK s \in Sessions : e = Client(s) \/ e = Server(s)
  BY EndsSplit
<1>2. e[1] = s
  BY <1>1, EndsAre
<1> QED BY <1>1, <1>2, RunDieHookStep, ClientClosesStep, ServerClosesStep DEF CloseRuns

LEMMA StutterKeeps ==
  ASSUME SessionInv, UNCHANGED vars
  PROVE  SessionInv'
BY DEF SessionInv, TypeOK, OneOwner, Fresh, Announced, MapsEmptied, AnswersFollow,
       InCustody, ClosedClientKeepsNoSession, Busy, Holds, Owns, At, Asked, Told, Mapped,
       IsClosed, vars, poolVars, sideVars, bufVars

(* The parts of the invariant hold throughout: whoever has a session is    *)
(* alone with it, and whatever the server says about a stream comes after  *)
(* the client has the stream in its map (session.go, client.go).           *)
THEOREM SessionInvariant == Spec => []SessionInv
<1>1. Init => SessionInv
  BY InitHolds
<1>2. SessionInv /\ [Next]_vars => SessionInv'
  <2> SUFFICES ASSUME SessionInv, [Next]_vars PROVE SessionInv'
    OBVIOUS
  <2>1. CASE \E k \in Callers : Calls(k)
    BY <2>1, CallsKeep
  <2>2. CASE \E e \in Ends : \/ Handles(e) \/ RecvEnds(e) \/ CloseRuns(e)
                             \/ \E i \in Sids : Streams(e, i)
    BY <2>2, HandlesKeep, RecvEndsStep, CloseRunsKeep, StreamsKeep
  <2>3. CASE \E s \in Sessions : WatchExpires(s) \/ CloseDoomed(s)
    BY <2>3, WatchExpiresStep, CloseDoomedStep
  <2>4. CASE \E S \in SUBSET pool : IdleCleanup(S)
    BY <2>4, IdleCleanupStep
  <2>5. CASE CancelClient \/ TakeSessions
    BY <2>5, CancelClientStep, TakeSessionsStep
  <2>6. CASE UNCHANGED vars
    BY <2>6, StutterKeeps
  <2> QED BY <2>1, <2>2, <2>3, <2>4, <2>5, <2>6 DEF Next
<1> QED BY <1>1, <1>2, PTL DEF Spec

LEMMA AtMostOne ==
  ASSUME NEW S, \A x, y \in S : x = y
  PROVE  /\ Cardinality(S) \in {0, 1}
         /\ S = {} => Cardinality(S) = 0
<1>1. S = {} \/ \E x : S = {x}
  OBVIOUS
<1> QED BY <1>1, FS_EmptySet, FS_Singleton

(* A session of the client is idle in the pool, or with one caller, or     *)
(* carries one stream: no second caller ever gets it, however many callers *)
(* ask for sessions while streams end and the idle ones are cleaned up     *)
(* (getIdleSession and CreateStream's hook, client.go).                    *)
THEOREM OneStreamAtATime == Spec => []SessionIsExclusive
<1>1. SessionInv => SessionIsExclusive
  <2> SUFFICES ASSUME SessionInv, NEW s \in Sessions
               PROVE  LET open == {i \in Sids : st[Client(s)][i] = "open"}
                          held == {k \in Callers : At(k, "open") /\ caller[k].s = s}
                          back == {i \in Sids : st[Client(s)][i] \in
                                                  {"hookL", "hookN", "putL", "putN"}}
                      IN  Cardinality(open) + Cardinality(held) + Cardinality(back)
                            + Cardinality(pool \cap {s}) <= 1
    BY DEF SessionIsExclusive
  <2> DEFINE open == {i \in Sids : st[Client(s)][i] = "open"}
             held == {k \in Callers : At(k, "open") /\ caller[k].s = s}
             back == {i \in Sids : st[Client(s)][i] \in {"hookL", "hookN", "putL", "putN"}}
             idle == pool \cap {s}
  <2>1. /\ \A i \in open : i \in Sids /\ Busy(s, i) /\ i \notin back
        /\ \A i \in back : i \in Sids /\ Busy(s, i)
        /\ \A k \in held : k \in Callers /\ Holds(k, s)
        /\ \A x \in idle : x = s /\ s \in pool
    BY DEF Busy, Holds
  <2> HIDE DEF open, held, back, idle
  <2>2. /\ \A x, y \in open \cup back : x = y
        /\ \A x, y \in held : x = y
        /\ \A x, y \in idle : x = y
        /\ open = {} \/ back = {}
        /\ held = {} \/ open \cup back = {}
        /\ idle = {} \/ (held = {} /\ open \cup back = {})
    BY <2>1 DEF SessionInv, OneOwner
  <2>3. /\ Cardinality(open) \in {0, 1} /\ (open = {} => Cardinality(open) = 0)
        /\ Cardinality(held) \in {0, 1} /\ (held = {} => Cardinality(held) = 0)
        /\ Cardinality(back) \in {0, 1} /\ (back = {} => Cardinality(back) = 0)
        /\ Cardinality(idle) \in {0, 1} /\ (idle = {} => Cardinality(idle) = 0)
    BY <2>2, AtMostOne
  <2>4. Cardinality(open) + Cardinality(held) + Cardinality(back) + Cardinality(idle) <= 1
    BY <2>2, <2>3
  <2> QED BY <2>4 DEF open, held, back, idle
<1> QED BY <1>1, SessionInvariant, PTL

(* The client's recvLoop finds the stream of every frame it handles in the *)
(* map as long as stream and session are open, although openStream sends   *)
(* the SYN before it puts the stream there (session.go).                   *)
THEOREM AnswersFindTheirStream == Spec => []NoAnswerIsLost
<1>1. SessionInv => NoAnswerIsLost
  <2> SUFFICES ASSUME SessionInv, NEW s \in Sessions, NEW n \in DOMAIN wire[Client(s)],
                      wire[Client(s)][n].sid # 0,
                      st[Client(s)][wire[Client(s)][n].sid] = "open"
               PROVE  \/ wire[Client(s)][n].sid \in streams[Client(s)]
                      \/ IsClosed(Client(s))
    BY DEF NoAnswerIsLost
  <2> DEFINE f == wire[Client(s)][n]
  <2>1. f \in Range(wire[Client(s)]) /\ wire[Client(s)] \in Seq(Frames)
    BY EndsAre DEF SessionInv, TypeOK, Range
  <2>2. f \in Frames
    BY <2>1, ElementOfSeq, LenProperties
  <2>3. f.sid \in Sids
    BY <2>2, FramesAre, SessionsAssumption DEF Sids
  <2>4. Told(s, f.sid)
    BY <2>1, <2>3 DEF Told
  <2>5. Mapped(s, f.sid)
    BY <2>3, <2>4 DEF SessionInv, AnswersFollow
  <2> QED BY <2>5 DEF Mapped
<1> QED BY <1>1, SessionInvariant, PTL

(* No open stream is left in a client session that has been closed, nor    *)
(* can one get there: openStream asks again before it puts its stream into *)
(* the map, and Close has emptied it by then or will (session.go).         *)
THEOREM CloseLeavesNone == Spec => []ClosedSessionHoldsNone
<1>1. SessionInv => ClosedSessionHoldsNone
  BY DEF SessionInv, MapsEmptied, ClosedSessionHoldsNone
<1> QED BY <1>1, SessionInvariant, PTL

(* Every session that is open after Client.Close is about to be closed, or *)
(* has a caller or a stream whose end will see to it: none is forgotten in *)
(* the pool, whichever of the hook, the dialler and Close comes first      *)
(* (client.go).                                                            *)
THEOREM CloseForgetsNone == Spec => []ClosedClientKeepsNoSession
<1>1. SessionInv => ClosedClientKeepsNoSession
  BY DEF SessionInv, InCustody
<1> QED BY <1>1, SessionInvariant, PTL
=============================================================================
