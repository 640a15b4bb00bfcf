--------------------------- MODULE CertCacheProofs ---------------------------
(***************************************************************************)
(* For any number of connections and authorities, and any validity and     *)
(* pause, a client is presented a certificate for its host that is valid,  *)
(* as long as the clocks stay together.                                    *)
(***************************************************************************)
EXTENDS CertCache, TLAPS

(* A certificate that waits to be inserted is one for the connection's     *)
(* host, made a pause ago at most.                                         *)
GeneratedAreFresh ==
  \A c \in Connections :
    state[c] = "generated" =>
      /\ cert[c].host = host[c]
      /\ uptime - cert[c].since \in 0..MaxPause

CertInv == TypeOK /\ EntriesStartFresh /\ GeneratedAreFresh

-----------------------------------------------------------------------------
(* What a connection has when it has a certificate, and what an entry is.   *)
LEMMA HasCertificate ==
  ASSUME TypeOK, NEW c \in Connections, state[c] \in {"generated", "presented"}
  PROVE  cert[c] \in Certificate
BY DEF TypeOK

LEMMA HasEntry ==
  ASSUME TypeOK, NEW a \in Authorities, cache[a] # None
  PROVE  cache[a] \in Entry /\ cache[a].cert \in Certificate /\ cache[a].at \in Nat
BY DEF TypeOK, Entry

(* Nothing is cached or generated at the start.                             *)
LEMMA CertInit == Init => CertInv
BY DEF Init, CertInv, TypeOK, EntriesStartFresh, GeneratedAreFresh

(* Every step keeps the types.                                             *)
LEMMA CertTypeStep == CertInv /\ [Next]_vars => TypeOK'
<1> SUFFICES ASSUME CertInv, [Next]_vars PROVE TypeOK'
  OBVIOUS
<1> USE DEF CertInv, TypeOK
<1>1. CASE Tick
  BY <1>1 DEF Tick
<1>2. CASE ClockSteps
  BY <1>2, CertAssumption DEF ClockSteps
<1>3. ASSUME NEW c \in Connections, NEW a \in Authorities, Open(c, a) PROVE TypeOK'
  BY <1>3 DEF Open
<1>4. ASSUME NEW c \in Connections, Hit(c) PROVE TypeOK'
  <2>1. cache[host[c]].cert \in Certificate
    BY <1>4, HasEntry DEF Hit, Live
  <2>2. cert'[c] # None
    BY <1>4, <2>1, NoneAssumption DEF Hit
  <2>3. QED
    BY <1>4, <2>1, <2>2 DEF Hit
<1>5. ASSUME NEW c \in Connections, Miss(c) PROVE TypeOK'
  BY <1>5 DEF Miss
<1>6. ASSUME NEW c \in Connections, Generate(c) PROVE TypeOK'
  <2>1. cert'[c] \in Certificate
    BY <1>6 DEF Generate, Certificate
  <2>2. cert'[c] # None
    BY <2>1, NoneAssumption
  <2>3. cert' \in [Connections -> Certificate \cup {None}]
    BY <1>6, <2>1 DEF Generate
  <2>4. QED
    BY <1>6, <2>2, <2>3 DEF Generate
<1>7. ASSUME NEW c \in Connections, GenerateFails(c) PROVE TypeOK'
  BY <1>7 DEF GenerateFails
<1>8. ASSUME NEW c \in Connections, Insert(c) PROVE TypeOK'
  <2>1. [cert |-> cert[c], at |-> uptime] \in Entry
    BY <1>8, HasCertificate DEF Insert, Entry
  <2>2. QED
    BY <1>8, <2>1 DEF Insert
<1>9. ASSUME NEW c \in Connections, Close(c) PROVE TypeOK'
  BY <1>9 DEF Close
<1>10. ASSUME NEW a \in Authorities, Evict(a) PROVE TypeOK'
  BY <1>10 DEF Evict
<1>11. CASE UNCHANGED vars
  BY <1>11 DEF vars
<1>12. QED
  BY <1>1, <1>2, <1>3, <1>4, <1>5, <1>6, <1>7, <1>8, <1>9, <1>10, <1>11 DEF Next

(* Only an insertion adds an entry, and the pause bounds its age.           *)
LEMMA EntriesStep == CertInv /\ [Next]_vars => EntriesStartFresh'
<1> SUFFICES ASSUME CertInv, [Next]_vars,
                    NEW a \in Authorities, cache'[a] # None
             PROVE  /\ cache'[a].cert.host = a
                    /\ cache'[a].at - cache'[a].cert.since \in 0..MaxPause
                    /\ cache'[a].at <= uptime'
  BY DEF EntriesStartFresh
<1> USE DEF CertInv
<1>1. CASE cache'[a] = cache[a]
  <2>1. uptime' \in {uptime, uptime + 1} /\ uptime \in Nat /\ cache[a].at \in Nat
    BY <1>1, HasEntry DEF TypeOK, Next, vars, Tick, ClockSteps, Open, Hit, Miss,
                          Generate, GenerateFails, Insert, Close, Evict
  <2>2. cache[a].at <= uptime => cache[a].at <= uptime'
    BY <2>1
  <2>3. QED
    BY <1>1, <2>2 DEF EntriesStartFresh
<1>2. CASE cache'[a] # cache[a]
  <2>1. PICK c \in Connections : Insert(c) /\ host[c] = a
    BY <1>2 DEF TypeOK, Next, vars, Tick, ClockSteps, Open, Hit, Miss,
                Generate, GenerateFails, Insert, Close, Evict
  <2>2. cache'[a] = [cert |-> cert[c], at |-> uptime] /\ uptime' = uptime
    BY <2>1 DEF Insert, TypeOK
  <2>3. cert[c].host = a /\ uptime - cert[c].since \in 0..MaxPause
    BY <2>1 DEF Insert, GeneratedAreFresh
  <2>4. uptime \in Nat
    BY DEF TypeOK
  <2>5. QED
    BY <2>2, <2>3, <2>4
<1>3. QED
  BY <1>1, <1>2

(* A certificate waits with its connection, and time waits for it.          *)
LEMMA GeneratedStep == CertInv /\ [Next]_vars => GeneratedAreFresh'
<1> SUFFICES ASSUME CertInv, [Next]_vars,
                    NEW c \in Connections, state'[c] = "generated"
             PROVE  /\ cert'[c].host = host'[c]
                    /\ uptime' - cert'[c].since \in 0..MaxPause
  BY DEF GeneratedAreFresh
<1> USE DEF CertInv
<1>1. CASE Tick
  <2>1. cert[c] \in Certificate /\ uptime - cert[c].since < MaxPause
    BY <1>1, HasCertificate DEF Tick
  <2>2. cert[c].since \in Nat /\ uptime \in Nat
    BY <2>1 DEF Certificate, TypeOK
  <2>3. cert[c].host = host[c] /\ uptime - cert[c].since \in 0..MaxPause
    BY <1>1 DEF Tick, GeneratedAreFresh
  <2>4. uptime + 1 - cert[c].since \in 0..MaxPause
    BY <2>1, <2>2, <2>3, CertAssumption
  <2>5. uptime' = uptime + 1 /\ UNCHANGED <<cert, host>>
    BY <1>1 DEF Tick
  <2>6. QED
    BY <2>2, <2>3, <2>4, <2>5
<1>2. ASSUME Generate(c)
      PROVE  /\ cert'[c].host = host'[c]
             /\ uptime' - cert'[c].since \in 0..MaxPause
  <2>1. /\ cert'[c] = [host |-> host[c], made |-> now, since |-> uptime]
        /\ UNCHANGED <<host, uptime>>
    BY <1>2 DEF Generate, TypeOK
  <2>2. uptime \in Nat /\ 0 \in 0..MaxPause
    BY CertAssumption DEF TypeOK
  <2>3. uptime' - cert'[c].since = 0
    BY <2>1, <2>2
  <2>4. QED
    BY <2>1, <2>2, <2>3
<1>3. CASE ~Tick /\ ~Generate(c)
  <2>1. state[c] = "generated" /\ UNCHANGED <<uptime, host[c], cert[c]>>
    BY <1>3 DEF TypeOK, Next, vars, ClockSteps, Open, Hit, Miss,
                Generate, GenerateFails, Insert, Close, Evict
  <2>2. QED
    BY <2>1 DEF GeneratedAreFresh
<1>4. QED
  BY <1>1, <1>2, <1>3

LEMMA CertStep == CertInv /\ [Next]_vars => CertInv'
BY CertTypeStep, EntriesStep, GeneratedStep DEF CertInv

-----------------------------------------------------------------------------
(* A certificate out of the cache or out of the generator is not older, on *)
(* the monotonic clock, than the time to live and the pause.                *)
LEMMA PresentedAge ==
  ASSUME CertInv, [Next]_vars,
         NEW c \in Connections, state[c] # "presented", state'[c] = "presented"
  PROVE  /\ cert'[c] \in Certificate
         /\ cert'[c].host = host[c]
         /\ UNCHANGED <<now, uptime>>
         /\ uptime - cert'[c].since \in 0..(CacheTtl + MaxPause)
<1> USE CertAssumption DEF CertInv
<1>0. CacheTtl \in Nat /\ uptime \in Nat /\ host[c] \in Authorities
  BY DEF CacheTtl, TypeOK
<1>1. Hit(c) \/ Insert(c)
  BY DEF TypeOK, Next, vars, Tick, ClockSteps, Open, Hit, Miss,
         Generate, GenerateFails, Insert, Close, Evict
<1>2. CASE Hit(c)
  <2> DEFINE e == cache[host[c]]
  <2>1. /\ e # None /\ uptime - e.at < CacheTtl
        /\ cert'[c] = e.cert /\ UNCHANGED <<now, uptime>>
    BY <1>2 DEF Hit, Live, TypeOK
  <2>2. e.cert \in Certificate /\ e.at \in Nat
    BY <1>0, <2>1, HasEntry
  <2>3. e.cert.since \in Nat
    BY <2>2 DEF Certificate
  <2>4. e.cert.host = host[c] /\ e.at - e.cert.since \in 0..MaxPause /\ e.at <= uptime
    BY <1>0, <2>1 DEF EntriesStartFresh
  <2> HIDE DEF e
  <2>5. uptime - e.cert.since \in 0..(CacheTtl + MaxPause)
    BY <1>0, <2>1, <2>2, <2>3, <2>4
  <2>6. QED
    BY <2>1, <2>2, <2>4, <2>5
<1>3. CASE Insert(c)
  <2>1. cert' = cert /\ UNCHANGED <<now, uptime>> /\ cert[c] \in Certificate
    BY <1>3, HasCertificate DEF Insert
  <2>2. cert[c].host = host[c] /\ uptime - cert[c].since \in 0..MaxPause
    BY <1>3 DEF Insert, GeneratedAreFresh
  <2>3. uptime - cert[c].since \in 0..(CacheTtl + MaxPause)
    BY <1>0, <2>2
  <2>4. QED
    BY <2>1, <2>2, <2>3
<1>4. QED
  BY <1>1, <1>2, <1>3

-----------------------------------------------------------------------------
(* The cache and the connections always have what their types say           *)
(* (get_server_config).                                                    *)
THEOREM CertTypeCorrect == Spec => []TypeOK
<1>1. CertInv => TypeOK
  BY DEF CertInv
<1>2. QED
  BY CertInit, CertStep, <1>1, PTL DEF Spec

(* An entry's time to live starts with its certificate's validity, but for *)
(* a pause (get_server_config).                                            *)
THEOREM EntriesFresh == Spec => []EntriesStartFresh
<1>1. CertInv => EntriesStartFresh
  BY DEF CertInv
<1>2. QED
  BY CertInit, CertStep, <1>1, PTL DEF Spec

(* Whatever races for the cache, a client is presented a certificate for    *)
(* its host, valid unless the clocks drifted apart by half of its validity *)
(* (TTL_SECS, CACHE_TTL, NOT_BEFORE_OFFSET, get_server_config).            *)
THEOREM CertificatesValid == Spec => PresentedAreValid
<1>1. CertInv /\ [Next]_vars =>
        [\A c \in Connections :
           (state[c] # "presented" /\ state'[c] = "presented") =>
             LET x == cert'[c] IN
               /\ x.host = host[c]
               /\ DriftSince(x) >= -Offset => NotBefore(x) <= now
               /\ DriftSince(x) + MaxPause + Offset <= Ttl \div 2 => now <= NotAfter(x)]_vars
  <2> SUFFICES ASSUME CertInv, [Next]_vars,
                      NEW c \in Connections, state[c] # "presented", state'[c] = "presented"
               PROVE  /\ cert'[c].host = host[c]
                      /\ DriftSince(cert'[c]) >= -Offset => NotBefore(cert'[c]) <= now
                      /\ DriftSince(cert'[c]) + MaxPause + Offset <= Ttl \div 2
                            => now <= NotAfter(cert'[c])
    OBVIOUS
  <2> DEFINE x == cert'[c]
  <2>1. /\ x \in Certificate /\ x.host = host[c]
        /\ uptime - x.since \in 0..(CacheTtl + MaxPause)
    BY PresentedAge
  <2>2. now \in Int /\ uptime \in Nat
    BY DEF CertInv, TypeOK
  <2>3. x.made \in Int /\ x.since \in Nat
    BY <2>1 DEF Certificate
  <2> HIDE DEF x
  <2>4. DriftSince(x) >= -Offset => NotBefore(x) <= now
    BY <2>1, <2>2, <2>3, CertAssumption DEF DriftSince, NotBefore, CacheTtl
  <2>5. DriftSince(x) + MaxPause + Offset <= Ttl \div 2 => now <= NotAfter(x)
    BY <2>1, <2>2, <2>3, CertAssumption DEF DriftSince, NotAfter, NotBefore, CacheTtl
  <2>6. QED
    BY <2>1, <2>4, <2>5 DEF x
<1>2. QED
  BY CertInit, CertStep, <1>1, PTL DEF Spec, PresentedAreValid
=============================================================================
