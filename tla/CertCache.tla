------------------------------ MODULE CertCache ------------------------------
(***************************************************************************)
(* src/proxy/ca.rs: the certificates the proxy presents in the name of the *)
(* hosts of its connections, and their cache.  get_server_config looks the *)
(* authority up, generates a certificate if it is not there, and inserts   *)
(* it; connections do so concurrently, and two may generate and insert for *)
(* one authority.  A certificate's validity is counted on the wall clock   *)
(* (SystemTime) and the cache's time to live on a monotonic clock that     *)
(* stands still while the machine sleeps, so that the two drift apart.     *)
(***************************************************************************)
EXTENDS Integers

CONSTANTS
  Connections,
  Authorities,
  Ttl,         (* validity of a certificate, TTL_SECS                       *)
  Offset,      (* NOT_BEFORE_OFFSET                                         *)
  MaxPause,    (* bound on the time from generating to inserting            *)
  MaxUptime,   (* bound on the monotonic clock                              *)
  MaxDrift,    (* bound on what the wall clock is ahead or behind           *)
  None

ASSUME CertAssumption ==
  /\ Ttl \in Nat /\ Offset \in Nat
  /\ MaxPause \in Nat /\ MaxUptime \in Nat /\ MaxDrift \in Nat

CacheTtlWhole == Ttl  (* bug: entries live as long as their certificates.  *)

CacheTtl == Ttl \div 2

VARIABLES
  now,         (* the wall clock                                            *)
  uptime,      (* the monotonic clock                                       *)
  cache,       (* authority -> entry or None                                *)
  state,       (* what each connection is doing                             *)
  host,        (* the authority of its CONNECT                              *)
  cert         (* the certificate it generated or presents, or None         *)

vars == <<now, uptime, cache, state, host, cert>>

(* A certificate, and when it was made on both clocks.                     *)
Certificate == [host : Authorities, made : Int, since : Nat]

ASSUME NoneAssumption == None \notin Certificate

(* Moka's entry: a certificate and when it was inserted.                    *)
Entry == [cert : Certificate, at : Nat]

NotBefore(x) == x.made - Offset
NotAfter(x) == NotBefore(x) + Ttl

Init ==
  /\ now = 0 /\ uptime = 0
  /\ cache = [a \in Authorities |-> None]
  /\ state = [c \in Connections |-> "closed"]
  /\ host \in [Connections -> Authorities]
  /\ cert = [c \in Connections |-> None]

-----------------------------------------------------------------------------
(* The clocks.                                                             *)

(* Time passes, and does not leave a generated certificate behind.          *)
Tick ==
  /\ uptime < MaxUptime
  /\ \A c \in Connections : state[c] = "generated" => uptime - cert[c].since < MaxPause
  /\ uptime' = uptime + 1
  /\ now' = now + 1
  /\ UNCHANGED <<cache, state, host, cert>>

(* The machine has slept, or the wall clock was set.                       *)
ClockSteps ==
  /\ now' \in (uptime - MaxDrift)..(uptime + MaxDrift)
  /\ UNCHANGED <<uptime, cache, state, host, cert>>

-----------------------------------------------------------------------------
(* A connection.                                                           *)

Open(c, a) ==
  /\ state[c] = "closed"
  /\ state' = [state EXCEPT ![c] = "asking"]
  /\ host' = [host EXCEPT ![c] = a]
  /\ UNCHANGED <<now, uptime, cache, cert>>

Live(a) == cache[a] # None /\ uptime - cache[a].at < CacheTtl

(* Variants marked "bug" are faulty forms of the definition below them: they *)
(* show that a property can fail, and no action uses them.                 *)

(* bug: a use of the entry renews it (time_to_idle for time_to_live).       *)
HitRenews(c) ==
  /\ state[c] = "asking" /\ Live(host[c])
  /\ state' = [state EXCEPT ![c] = "presented"]
  /\ cert' = [cert EXCEPT ![c] = cache[host[c]].cert]
  /\ cache' = [cache EXCEPT ![host[c]].at = uptime]
  /\ UNCHANGED <<now, uptime, host>>

Hit(c) ==
  /\ state[c] = "asking" /\ Live(host[c])
  /\ state' = [state EXCEPT ![c] = "presented"]
  /\ cert' = [cert EXCEPT ![c] = cache[host[c]].cert]
  /\ UNCHANGED <<now, uptime, cache, host>>

Miss(c) ==
  /\ state[c] = "asking" /\ ~Live(host[c])
  /\ state' = [state EXCEPT ![c] = "missed"]
  /\ UNCHANGED <<now, uptime, cache, host, cert>>

Generate(c) ==
  /\ state[c] = "missed"
  /\ state' = [state EXCEPT ![c] = "generated"]
  /\ cert' = [cert EXCEPT ![c] = [host |-> host[c], made |-> now, since |-> uptime]]
  /\ UNCHANGED <<now, uptime, cache, host>>

(* bug: the error is not passed on.                                        *)
GenerateFailsOn(c) ==
  /\ state[c] = "missed"
  /\ state' = [state EXCEPT ![c] = "presented"]
  /\ UNCHANGED <<now, uptime, cache, host, cert>>

(* An error of OpenSSL or rustls closes the connection.                     *)
GenerateFails(c) ==
  /\ state[c] = "missed"
  /\ state' = [state EXCEPT ![c] = "closed"]
  /\ UNCHANGED <<now, uptime, cache, host, cert>>

(* The entry replaces one that another connection may have inserted.       *)
Insert(c) ==
  /\ state[c] = "generated"
  /\ state' = [state EXCEPT ![c] = "presented"]
  /\ cache' = [cache EXCEPT ![host[c]] = [cert |-> cert[c], at |-> uptime]]
  /\ UNCHANGED <<now, uptime, host, cert>>

Close(c) ==
  /\ state[c] = "presented"
  /\ state' = [state EXCEPT ![c] = "closed"]
  /\ cert' = [cert EXCEPT ![c] = None]
  /\ UNCHANGED <<now, uptime, cache, host>>

(* Moka removes an entry that expired, or any one when it holds too many.   *)
Evict(a) ==
  /\ cache[a] # None
  /\ cache' = [cache EXCEPT ![a] = None]
  /\ UNCHANGED <<now, uptime, state, host, cert>>

Next ==
  \/ Tick
  \/ ClockSteps
  \/ \E c \in Connections :
        \/ \E a \in Authorities : Open(c, a)
        \/ Hit(c) \/ Miss(c) \/ Generate(c) \/ GenerateFails(c) \/ Insert(c) \/ Close(c)
  \/ \E a \in Authorities : Evict(a)

Spec == Init /\ [][Next]_vars

-----------------------------------------------------------------------------
(* Every variable has its type, and a connection has a certificate exactly *)
(* when it has generated or presents one.                                  *)
TypeOK ==
  /\ now \in Int /\ uptime \in Nat
  /\ cache \in [Authorities -> Entry \cup {None}]
  /\ state \in [Connections -> {"closed", "asking", "missed", "generated", "presented"}]
  /\ host \in [Connections -> Authorities]
  /\ cert \in [Connections -> Certificate \cup {None}]
  /\ \A c \in Connections :
        state[c] \in {"generated", "presented"} <=> cert[c] # None

(* Neither a slow insertion nor a later one of the same authority makes a  *)
(* certificate look younger than it is by more than the pause: an entry's  *)
(* time to live starts at most MaxPause after its certificate's validity   *)
(* (get_server_config).                                                    *)
EntriesStartFresh ==
  \A a \in Authorities :
    cache[a] # None =>
      /\ cache[a].cert.host = a
      /\ cache[a].at - cache[a].cert.since \in 0..MaxPause
      /\ cache[a].at <= uptime

(* How far the wall clock has moved against the monotonic one since x was  *)
(* made.                                                                   *)
DriftSince(x) == (now - uptime) - (x.made - x.since)

(* TTL_SECS, CACHE_TTL and NOT_BEFORE_OFFSET together: whatever certificate *)
(* a client is presented, from the cache or new, is one for its host and   *)
(* valid at that moment, unless the wall clock went back by more than the  *)
(* offset or ahead by about half of the validity, which the cache leaves   *)
(* for that (get_server_config).                                           *)
PresentedAreValid ==
  [][\A c \in Connections :
       (state[c] # "presented" /\ state'[c] = "presented") =>
         LET x == cert'[c] IN
           /\ x.host = host[c]
           /\ DriftSince(x) >= -Offset => NotBefore(x) <= now
           /\ DriftSince(x) + MaxPause + Offset <= Ttl \div 2 => now <= NotAfter(x)]_vars
=============================================================================
