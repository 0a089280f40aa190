------------------------- MODULE CoordinatorServices -------------------------
(* The services the coordinator keeps in memory (apps/coordinator/src):     *)
(* the faucet and its cooldowns, the nickname registry behind the write     *)
(* limiter, the cache of proof artifacts and the seat intents.  They share  *)
(* the clock and nothing else.  A refused request changes nothing but what  *)
(* the code has written before it refuses; such a request is a step only    *)
(* when it writes something.                                                *)
EXTENDS Naturals, FiniteSets, FiniteSetsExt, Sequences, SequencesExt

CONSTANTS
  Addresses,         \* well formed player addresses, as spelled in requests
  Ips,               \* clients, as clientIpFromForwarded tells them apart
  Writers,           \* those of them that write
  Malformed,         \* an address decodeBech32Prefix does not accept
  cooldownMs,        \* FaucetConfig.cooldownMs, in ticks of the clock
  ipCooldownMs,      \* FaucetConfig.ipCooldownMs
  spamIpCooldownMs,  \* min(ipCooldownMs, 60 s)
  MAX_COOLDOWN_ENTRIES,
  Names,             \* nicknames up to case
  maxEntries,        \* the cap of the nickname registry
  writeRateLimitMax, writeRateLimitWindowMs,
  ArtifactIds, ArtifactSizes, artifactMaxBytes, artifactCacheMaxBytes,
  SeatIntents,       \* the intents that may be posted
  seatIntentTtlMs,
  MaxNow,            \* bound: the clock stops here
  MaxPaid            \* bound: drips sent

ASSUME ServiceAssumption ==
  /\ spamIpCooldownMs <= ipCooldownMs
  /\ artifactMaxBytes <= artifactCacheMaxBytes
  /\ Writers \subseteq Ips
  /\ maxEntries > 0 /\ writeRateLimitMax > 0 /\ writeRateLimitWindowMs > 0

VARIABLES
  now,        \* Date.now(); starts at 1, an expiry of 0 is no entry
  faucet,     \* FaucetService
  registry,   \* NicknameRegistry: <<address, nickname>> in Map order
  writes,     \* the limiter's buckets, and when it let the last writes through
  cache,      \* CoordinatorStore: artifacts in Map order, artifactsTotalBytes
  intents     \* CoordinatorStore.seatIntentsByTable, flat, and what was posted

serviceVars == <<now, faucet, registry, writes, cache, intents>>

------------------------------------------------------------------------------
(* Faucet.  "paid" remembers, per address, the request time of the last     *)
(* drip that reached the chain; "early" the addresses paid again before     *)
(* cooldownMs had passed; "excused" those whose cooldown the faucet could   *)
(* not know of (the answer was lost) or has dropped (over the cap).         *)

Expired(at) == at = 0 \/ now >= at

\* Mutant: a transfer under way does not refuse another.
RefusesUnlessBusy(address) ==
  \/ address = Malformed
  \/ ~Expired(faucet.addressCooldowns[address])

Refuses(address) ==
  \/ address = Malformed
  \/ ~Expired(faucet.addressCooldowns[address])
  \/ faucet.busy

\* The cooldown is kept by the address as it is spelled: the same account in upper
\* case, which decodeBech32Prefix accepts, is another address here.
drip(address, ip) ==
  /\ Cardinality(faucet.sending) + faucet.count < MaxPaid
  /\ Expired(faucet.ipCooldowns[ip])
  /\ LET spam == [faucet EXCEPT !.ipCooldowns[ip] = now + spamIpCooldownMs]
     IN  faucet' = IF Refuses(address) THEN spam
                   ELSE [spam EXCEPT
                           !.busy = TRUE,
                           !.sending = @ \cup {[address |-> address, ip |-> ip, at |-> now]}]
  /\ UNCHANGED <<now, registry, writes, cache, intents>>

Pay(f, r) ==
  [f EXCEPT
     !.count = @ + 1,
     !.paid[r.address] = r.at,
     !.early = IF f.paid[r.address] # 0 /\ r.at < f.paid[r.address] + cooldownMs
               THEN @ \cup {r.address} ELSE @]

\* signAndBroadcastAuto returns: the cooldowns run from the request, not from the answer.
dripDone(r) ==
  /\ faucet' = [Pay(faucet, r) EXCEPT
                  !.sending = @ \ {r},
                  !.busy = FALSE,
                  !.addressCooldowns[r.address] = r.at + cooldownMs,
                  !.ipCooldowns[r.ip] = r.at + ipCooldownMs]
  /\ UNCHANGED <<now, registry, writes, cache, intents>>

\* signAndBroadcastAuto throws: nothing was sent, or it was and only the answer is lost.
dripFailed(r, sent) ==
  /\ faucet' = [(IF sent THEN [Pay(faucet, r) EXCEPT !.excused = @ \cup {r.address}]
                 ELSE faucet) EXCEPT
                  !.sending = @ \ {r}, !.busy = FALSE]
  /\ UNCHANGED <<now, registry, writes, cache, intents>>

Live(cooldowns) == {k \in DOMAIN cooldowns : ~Expired(cooldowns[k])}

evictSoonestToExpire(cooldowns) ==
  {keep \in SUBSET Live(cooldowns) :
     /\ Cardinality(keep) = Min({Cardinality(Live(cooldowns)), MAX_COOLDOWN_ENTRIES})
     /\ \A k \in keep, d \in Live(cooldowns) \ keep : cooldowns[d] <= cooldowns[k]}

KeepOnly(cooldowns, keep) == [k \in DOMAIN cooldowns |-> IF k \in keep THEN cooldowns[k] ELSE 0]

pruneCooldowns ==
  /\ \E a \in evictSoonestToExpire(faucet.addressCooldowns),
        i \in evictSoonestToExpire(faucet.ipCooldowns) :
       faucet' = [faucet EXCEPT
                    !.addressCooldowns = KeepOnly(@, a),
                    !.ipCooldowns = KeepOnly(@, i),
                    !.excused = @ \cup (Live(faucet.addressCooldowns) \ a)]
  /\ UNCHANGED <<now, registry, writes, cache, intents>>

------------------------------------------------------------------------------
(* The write guards, in front of every route that stores something: an      *)
(* unauthenticated request never reaches the limiter.                       *)

Bucket(ip) ==
  IF now >= writes.windowEndMs[ip]
  THEN [count |-> 1, windowEndMs |-> now + writeRateLimitWindowMs]
  ELSE [count |-> writes.count[ip] + 1, windowEndMs |-> writes.windowEndMs[ip]]

Recent(t) == now < t + writeRateLimitWindowMs

\* createWriteAuthGuard, then createWriteRateLimiter
writeGuards(ip, authorized) ==
  /\ authorized
  /\ now >= writes.windowEndMs[ip] \/ writes.count[ip] < writeRateLimitMax
  /\ LET b == Bucket(ip)
     IN  writes' = [writes EXCEPT !.count[ip] = b.count,
                                  !.windowEndMs[ip] = b.windowEndMs,
                                  !.let[ip] = Append(SelectSeq(@, Recent), now)]

(* Nicknames: Map.set on a key that is there keeps the key's place.          *)

Holder(reg, address) == SelectInSeq(reg, LAMBDA e : e[1] = address)

takenNickname(reg, address, nick) ==
  \E i \in DOMAIN reg : reg[i][1] # address /\ reg[i][2].lower = nick.lower

setNickname(reg, address, nick) ==
  LET i == Holder(reg, address)
  IN  CASE takenNickname(reg, address, nick) -> reg
        [] i # 0 -> [reg EXCEPT ![i] = <<address, nick>>]
        [] OTHER -> Append(IF Len(reg) >= maxEntries THEN Tail(reg) ELSE reg,
                           <<address, nick>>)

putNickname(ip, authorized, address, nick) ==
  /\ writeGuards(ip, authorized)
  /\ registry' = IF address = Malformed THEN registry
                 ELSE setNickname(registry, address, nick)
  /\ UNCHANGED <<now, faucet, cache, intents>>

------------------------------------------------------------------------------
(* Artifacts.                                                               *)

Bytes(arts) == FoldSeq(LAMBDA a, sum : a.bytes + sum, 0, arts)

\* The order of the stable sort on lastAccessAtMs: the earlier in the Map on a tie.
Older(arts, i, j) ==
  \/ arts[i].lastAccessAtMs < arts[j].lastAccessAtMs
  \/ arts[i].lastAccessAtMs = arts[j].lastAccessAtMs /\ i < j

\* The artifacts that are dropped one after the other until the total fits.
evictArtifactsIfNeeded(c) ==
  LET Rank(i) == Cardinality({j \in DOMAIN c.arts : Older(c.arts, j, i)})
      Dropped(n) == {i \in DOMAIN c.arts : Rank(i) < n}
      Left(n) == c.total - MapThenSumSet(LAMBDA i : c.arts[i].bytes, Dropped(n))
      n0 == Min({n \in 0..Len(c.arts) : Left(n) <= artifactCacheMaxBytes})
      Stays == {i \in DOMAIN c.arts : i \notin Dropped(n0)}
  IN  [arts |-> [k \in 1..Cardinality(Stays) |->
                   c.arts[CHOOSE i \in Stays : Cardinality({j \in Stays : j <= i}) = k]],
       total |-> Left(n0)]

Place(arts, id) == SelectInSeq(arts, LAMBDA a : a.id = id)

ReplacedBytes(c, id) == LET i == Place(c.arts, id) IN IF i = 0 THEN 0 ELSE c.arts[i].bytes

Stored(c, art) ==
  LET i == Place(c.arts, art.id)
  IN  [arts |-> IF i = 0 THEN Append(c.arts, art) ELSE [c.arts EXCEPT ![i] = art],
       total |-> (c.total - ReplacedBytes(c, art.id)) + art.bytes]

putArtifact(id, bytes) ==
  evictArtifactsIfNeeded(Stored(cache, [id |-> id, bytes |-> bytes, lastAccessAtMs |-> now]))

TooLarge(bytes) == bytes > artifactMaxBytes

putArtifactRoute(ip, authorized, id, bytes) ==
  /\ writeGuards(ip, authorized)
  /\ cache' = IF TooLarge(bytes) THEN cache ELSE putArtifact(id, bytes)
  /\ UNCHANGED <<now, faucet, registry, intents>>

getArtifact(id) ==
  /\ Place(cache.arts, id) # 0
  /\ cache' = [cache EXCEPT !.arts[Place(cache.arts, id)].lastAccessAtMs = now]
  /\ UNCHANGED <<now, faucet, registry, writes, intents>>

------------------------------------------------------------------------------
(* Seat intents, shown until they expire.  "posted" remembers them all,      *)
(* "shown" the last listing and "due" what it ought to have been.           *)

Unexpired(held) == {i \in held : i.expiresAtMs > now}

postSeatIntent(ip, authorized, what) ==
  LET intent == [what |-> what, expiresAtMs |-> now + seatIntentTtlMs]
  IN  /\ writeGuards(ip, authorized)
      /\ intents' = [intents EXCEPT !.held = @ \cup {intent}, !.posted = @ \cup {intent}]
      /\ UNCHANGED <<now, faucet, registry, cache>>

\* The prune timer of server.ts.
pruneExpiredSeatIntents ==
  /\ intents' = [intents EXCEPT !.held = Unexpired(@)]
  /\ UNCHANGED <<now, faucet, registry, writes, cache>>

listSeatIntents ==
  /\ intents' = [intents EXCEPT !.held = Unexpired(@),
                                !.shown = Unexpired(intents.held),
                                !.due = {i \in intents.posted : now < i.expiresAtMs}]
  /\ UNCHANGED <<now, faucet, registry, writes, cache>>

------------------------------------------------------------------------------
Tick ==
  /\ now < MaxNow
  /\ now' = now + 1
  /\ UNCHANGED <<faucet, registry, writes, cache, intents>>

ServicesInit ==
  /\ now = 1
  /\ faucet = [addressCooldowns |-> [a \in Addresses |-> 0],
               ipCooldowns |-> [i \in Ips |-> 0],
               busy |-> FALSE, sending |-> {}, count |-> 0,
               paid |-> [a \in Addresses |-> 0], early |-> {}, excused |-> {}]
  /\ registry = <<>>
  /\ writes = [count |-> [i \in Writers |-> 0], windowEndMs |-> [i \in Writers |-> 0],
               let |-> [i \in Writers |-> <<>>]]
  /\ cache = [arts |-> <<>>, total |-> 0]
  /\ intents = [held |-> {}, posted |-> {}, shown |-> {}, due |-> {}]

FaucetNext ==
  \/ \E a \in Addresses \cup {Malformed}, i \in Ips : drip(a, i)
  \/ \E r \in faucet.sending : dripDone(r)
  \/ \E r \in faucet.sending, sent \in BOOLEAN : dripFailed(r, sent)
  \/ pruneCooldowns
  \/ Tick

NicknamesNext ==
  \/ \E i \in Writers, ok \in BOOLEAN, a \in Addresses \cup {Malformed}, n \in Names, up \in BOOLEAN :
       putNickname(i, ok, a, [lower |-> n, upper |-> up])
  \/ Tick

ArtifactsNext ==
  \/ \E i \in Writers, ok \in BOOLEAN, a \in ArtifactIds, b \in ArtifactSizes : putArtifactRoute(i, ok, a, b)
  \/ \E a \in ArtifactIds : getArtifact(a)
  \/ Tick

SeatIntentsNext ==
  \/ \E i \in Writers, ok \in BOOLEAN, w \in SeatIntents : postSeatIntent(i, ok, w)
  \/ pruneExpiredSeatIntents
  \/ listSeatIntents
  \/ Tick

------------------------------------------------------------------------------
(* Two requests for one address, however they interleave with the transfer  *)
(* that is under way, are paid at least cooldownMs apart, except where the  *)
(* answer to the first was lost or its entry was dropped over the cap       *)
(* (FaucetService.drip, with its mutex and its cooldowns set afterwards).   *)
FaucetPaysOncePerCooldown == faucet.early \subseteq faucet.excused

(* No two players ever hold one nickname, whatever the case it was typed in, *)
(* and the registry stays within its cap through every update and eviction  *)
(* (NicknameRegistry.set).                                                  *)
NicknamesUnique ==
  /\ Len(registry) <= maxEntries
  /\ \A i, j \in DOMAIN registry : registry[i][2].lower = registry[j][2].lower => i = j

(* A fixed window lets through at most two windows' worth of writes in any   *)
(* stretch of one window's length, and never more than the limit within one *)
(* bucket (createWriteRateLimiter).                                         *)
WriteBurstBounded ==
  \A ip \in Writers : Len(writes.let[ip]) <= 2 * writeRateLimitMax

(* artifactsTotalBytes is the size of what is cached, through overwrites    *)
(* with another size and evictions, and never exceeds the cache's limit.    *)
ArtifactBytesAccounted ==
  /\ cache.total = Bytes(cache.arts)
  /\ cache.total <= artifactCacheMaxBytes

(* A listing shows exactly the intents posted less than seatIntentTtlMs ago, *)
(* however the prune timer and the listings' own pruning interleave.        *)
IntentsShownWhileFresh == intents.shown = intents.due

(* The coordinator's in-memory services keep the limits they set, at every       *)
(* interleaving of requests, transfers, prunes and expiries.                     *)
ServicesKeepTheirLimits ==
  /\ FaucetPaysOncePerCooldown /\ NicknamesUnique /\ WriteBurstBounded
  /\ ArtifactBytesAccounted /\ IntentsShownWhileFresh
==============================================================================
