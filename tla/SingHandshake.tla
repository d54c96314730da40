---------------------------- MODULE SingHandshake ----------------------------
(***************************************************************************)
(* How each sing-box inbound takes a table of users and finds the user of  *)
(* a request in the snapshot it took (patches/sing-box protocol/*,         *)
(* sing-vmess, sing-shadowsocks, sing-quic, sing-anytls).                  *)
(*                                                                         *)
(* A user stands for its key: core/sing/user.go derives every key from the *)
(* user's uuid.  BadUsers are those whose uuid gives no key (empty, too    *)
(* short or no UUID): protocols refuse them at different points.           *)
(***************************************************************************)
CONSTANTS Users, BadUsers, NoUser

ASSUME HandshakeAssumption ==
  /\ BadUsers \subseteq Users
  /\ NoUser \notin Users

StreamProtocols == {"vless", "vmess", "trojan", "shadowsocks", "ss2022",
                    "anytls"}
QuicProtocols == {"hysteria", "hysteria2", "tuic"}
AllProtocols == StreamProtocols \cup QuicProtocols

(* A request carries a key, and is fresh (in time, not replayed, its token *)
(* right), and fitting (the user's flow, a command the protocol has).      *)
Requests ==
  [key : Users \cup {NoUser}, fresh : BOOLEAN, fitting : BOOLEAN]

(* The outcome of a handshake: a user, a fallback connection, or nothing. *)
Refused == [kind |-> "refused", user |-> NoUser]

Fallback == [kind |-> "fallback", user |-> NoUser]
Known(u) == [kind |-> "known", user |-> u]

-----------------------------------------------------------------------------
(* service.NewConnection and its kin: `snap` is the table read under       *)
(* managedMu.                                                              *)

VlessIdentify(snap, r) ==
  IF r.key \in snap /\ r.fitting THEN Known(r.key) ELSE Refused

VmessIdentify(snap, r) ==
  IF r.key \in snap /\ r.fresh /\ r.fitting THEN Known(r.key) ELSE Refused

TrojanIdentify(snap, r) ==
  CASE r.key \notin snap -> Fallback
    [] r.key \in snap /\ r.fitting -> Known(r.key)
    [] OTHER -> Refused

(* With no user there is no cipher to size the header by: ErrNoUsers. *)
ShadowsocksIdentify(snap, r) ==
  IF snap # {} /\ r.key \in snap THEN Known(r.key) ELSE Refused

Shadowsocks2022Identify(snap, r) ==
  IF r.fresh /\ r.key \in snap /\ r.fitting THEN Known(r.key) ELSE Refused

(* The service falls back, and the inbound has given it no handler for it. *)
AnytlsIdentify(snap, r) ==
  IF r.key \in snap /\ r.fitting THEN Known(r.key) ELSE Refused

HysteriaIdentify(snap, r) ==
  IF r.key \in snap THEN Known(r.key) ELSE Refused

(* An unknown password is answered by the masquerade site. *)
Hysteria2Identify(snap, r) ==
  IF r.fitting /\ r.key \in snap THEN Known(r.key) ELSE Refused

TuicIdentify(snap, r) ==
  IF r.fitting /\ r.key \in snap /\ r.fresh THEN Known(r.key) ELSE Refused

Identify(proto, snap, r) ==
  CASE proto = "vless"       -> VlessIdentify(snap, r)
    [] proto = "vmess"       -> VmessIdentify(snap, r)
    [] proto = "trojan"      -> TrojanIdentify(snap, r)
    [] proto = "shadowsocks" -> ShadowsocksIdentify(snap, r)
    [] proto = "ss2022"      -> Shadowsocks2022Identify(snap, r)
    [] proto = "anytls"      -> AnytlsIdentify(snap, r)
    [] proto = "hysteria"    -> HysteriaIdentify(snap, r)
    [] proto = "hysteria2"   -> Hysteria2Identify(snap, r)
    [] OTHER                 -> TuicIdentify(snap, r)

-----------------------------------------------------------------------------
(* Streams of a session.  `phase` tells whether it has been identified.    *)

(* hysteria accepts streams after its greeting, and sends UDP to where a   *)
(* stream of its own keeps it; hysteria2 leaves the streams of a           *)
(* connection that is not authenticated to HTTP/3; those of tuic wait for  *)
(* the authentication or for the end of the connection.                    *)
HysteriaOpens(phase) == phase = "open"
Hysteria2Opens(phase) == phase = "open"
TuicOpens(phase) == phase = "open"

(* The other services call the inbound when the handshake is done. *)
Opens(proto, phase) ==
  CASE proto = "hysteria"  -> HysteriaOpens(phase)
    [] proto = "hysteria2" -> Hysteria2Opens(phase)
    [] proto = "tuic"      -> TuicOpens(phase)
    [] OTHER               -> phase = "open"

(* Whether the inbound gives the stream to the router.  These close it     *)
(* unless the context holds a user.                                        *)
VlessRoutes(who) == who.kind = "known"
VmessRoutes(who) == who.kind = "known"
ShadowsocksRoutes(who) == who.kind = "known"

(* `fallback`: an address for fallback connections is configured. *)
TrojanRoutes(who, fallback) ==
  \/ who.kind = "known"
  \/ who.kind = "fallback" /\ fallback

(* And these do not ask: a stream without a user is routed without one. *)
AnytlsRoutes(who) == who.kind # "refused"
HysteriaRoutes(who) == who.kind # "refused"
Hysteria2Routes(who) == who.kind # "refused"
TuicRoutes(who) == who.kind # "refused"

Routes(proto, who, fallback) ==
  CASE proto = "vless"       -> VlessRoutes(who)
    [] proto = "vmess"       -> VmessRoutes(who)
    [] proto = "trojan"      -> TrojanRoutes(who, fallback)
    [] proto \in {"shadowsocks", "ss2022"} -> ShadowsocksRoutes(who)
    [] proto = "anytls"      -> AnytlsRoutes(who)
    [] proto = "hysteria"    -> HysteriaRoutes(who)
    [] proto = "hysteria2"   -> Hysteria2Routes(who)
    [] OTHER                 -> TuicRoutes(who)

-----------------------------------------------------------------------------
(* SetManagedUsers and UpdateUsers: the table after the call, and whether  *)
(* the call succeeded.                                                     *)

Accepted(us) == [ok |-> TRUE, table |-> us]
RefusedWith(t) == [ok |-> FALSE, table |-> t]

(* Mutation: the new users are merged into the table that is there. *)
VlessMerges(us, old) == Accepted(us \cup old)

(* A key that is no UUID is hashed into one; AES takes every key. *)
VlessUpdate(us, old) == Accepted(us)
VmessUpdate(us, old) == Accepted(us)

(* Duplicates are refused before assignment; a map keyed by uuid has none. *)
TrojanUpdate(us, old) == Accepted(us)
AnytlsUpdate(us, old) == Accepted(us)
HysteriaUpdate(us, old) == Accepted(us)
Hysteria2Update(us, old) == Accepted(us)

(* methodMap is emptied first and filled one user at a time.  The list is  *)
(* sorted, and the one key refused, the empty one, is the first of it.     *)
ShadowsocksUpdate(us, old) ==
  IF us \cap BadUsers = {} THEN Accepted(us) ELSE RefusedWith({})

(* Short keys are refused by setUsers, before the service is called. *)
Shadowsocks2022Update(us, old) ==
  IF us \cap BadUsers = {} THEN Accepted(us) ELSE RefusedWith(old)

TuicUpdate(us, old) ==
  IF us \cap BadUsers = {} THEN Accepted(us) ELSE RefusedWith(old)

SetUsers(proto, us, old) ==
  CASE proto = "vless"       -> VlessUpdate(us, old)
    [] proto = "vmess"       -> VmessUpdate(us, old)
    [] proto = "trojan"      -> TrojanUpdate(us, old)
    [] proto = "shadowsocks" -> ShadowsocksUpdate(us, old)
    [] proto = "ss2022"      -> Shadowsocks2022Update(us, old)
    [] proto = "anytls"      -> AnytlsUpdate(us, old)
    [] proto = "hysteria"    -> HysteriaUpdate(us, old)
    [] proto = "hysteria2"   -> Hysteria2Update(us, old)
    [] OTHER                 -> TuicUpdate(us, old)
=============================================================================
