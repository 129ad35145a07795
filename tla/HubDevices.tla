----------------------------- MODULE HubDevices -----------------------------
(***************************************************************************)
(* The devices of the hub: registration with the invite code of a slot     *)
(* (api_market_register and Database.register_slot_device), the standing   *)
(* an upload is checked for (_auth_middleware), the administrator's        *)
(* command line (hub/devices.py), which is a process of its own on the     *)
(* same database, and the rate limits.                                     *)
(*                                                                         *)
(* The handlers run on one thread and give it up only while they await a   *)
(* body; a command of devices.py looks and then writes.  A device is its   *)
(* place in the table; its token is as good as its place.                  *)
(***************************************************************************)
EXTENDS RateLimiter, Sequences, FiniteSets

CONSTANTS
  Slots, Ips,     \* the slots of invite_codes; where clients come from
  Given,          \* the names an administrator gives
  Buckets,        \* the limits that can be reached, among those of Key
  Limit,          \* what they are
  MaxDevices, MaxRequests, MaxTime   \* bounds

Blank == "blank"
Key == [register |-> Ips, register_slot |-> Slots, upload |-> 1..MaxDevices]

ASSUME DevicesAssumption ==
  /\ Blank \notin Slots \cup Given
  /\ Buckets \subseteq DOMAIN Key /\ Limit \in [Buckets -> Nat \ {0}]
  /\ MaxDevices \in Nat /\ MaxRequests \in Nat /\ MaxTime \in Nat
  /\ None \notin Nat \cup Slots \cup Given

VARIABLES
  devices,    \* the table, in the order of the rows
  limits,     \* the limiter of each bucket
  requests,   \* the requests whose body the hub awaits
  cli,        \* what devices.py has looked at and is about to write
  now,
  passed,     \* history: when hits were let through, since the hub started
  under,      \* history: the uploads that were awaited when the standing went
  restored,   \* history: the devices that have their standing by `unrevoke`
  named       \* history: for each slot, the name given to it, or None

hvars == <<devices, limits, requests, cli, now, passed, under, restored, named>>

-----------------------------------------------------------------------------
Active(d) == ~devices[d].revoked

Holders(slot) == {d \in DOMAIN devices : Active(d) /\ devices[d].slot = slot}

UploadsOf(D) == {r \in requests : r.kind = "upload" /\ r.device \in D}

\* One hit: the limiter and the history of what it let through.
Counted(bucket, key) ==
  IF bucket \notin Buckets THEN UNCHANGED <<limits, passed>>
  ELSE /\ limits' = [limits EXCEPT ![bucket] = Hit(@, key, now, Limit[bucket])]
       /\ passed' = IF Refused(limits[bucket], key, now, Limit[bucket]) THEN passed
                    ELSE [passed EXCEPT ![bucket][key] = Append(@, now)]

\* The answer to a hit.
Waits(bucket, key) ==
  IF bucket \notin Buckets THEN 0 ELSE Wait(limits[bucket], key, now, Limit[bucket])

Await(r) == requests' = requests \cup {r}

Quiet == UNCHANGED <<cli, now, restored, named>>

\* A registration arrives; the time it is given is read here.
RegisterArrives(ip) ==
  /\ Cardinality(requests) < MaxRequests
  /\ Counted("register", ip)
  /\ IF Waits("register", ip) > 0 THEN UNCHANGED requests
     ELSE Await([kind |-> "register", at |-> now])
  /\ UNCHANGED <<devices, under>> /\ Quiet

\* The body is bad, or names no slot.
RegisterBad(r) ==
  /\ r.kind = "register"
  /\ requests' = requests \ {r}
  /\ UNCHANGED <<devices, limits, passed, under>> /\ Quiet

\* The slot has had too many, or the database fails: counted all the same.
RegisterFails(r, slot) ==
  /\ r.kind = "register"
  /\ requests' = requests \ {r}
  /\ Counted("register_slot", slot)
  /\ UNCHANGED <<devices, under>> /\ Quiet

\* The name a new device takes over: that of the latest of those it replaces
\* that has one.  SlotName, a mutant: always that of the slot.
SlotName(slot) == slot

NewName(slot) ==
  LET had == {d \in Holders(slot) : devices[d].alias # Blank}
      later(d, e) == \/ devices[d].created > devices[e].created
                     \/ devices[d].created = devices[e].created /\ d >= e
  IN  IF had = {} THEN slot
      ELSE devices[CHOOSE d \in had : \A e \in had : later(d, e)].alias

NewDevice(slot, at) ==
  [slot |-> slot, alias |-> NewName(slot), created |-> at, revoked |-> FALSE]

\* The table without the standing of those that hold the slot.
Replaced(slot) ==
  [d \in DOMAIN devices |->
     IF d \in Holders(slot) THEN [devices[d] EXCEPT !.revoked = TRUE] ELSE devices[d]]

\* register_slot_device in one transaction: the new device takes the slot and
\* those that hold it lose their standing.
\* RegisterBeside, a mutant: the slot was looked up when the request arrived.
RegisterBeside(r, slot) ==
  /\ r.kind = "register"
  /\ Len(devices) < MaxDevices
  /\ requests' = requests \ {r}
  /\ Waits("register_slot", slot) = 0
  /\ Counted("register_slot", slot)
  /\ LET out == {d \in Holders(slot) : devices[d].created < r.at}
     IN  /\ devices' = Append([d \in DOMAIN devices |->
                          IF d \in out THEN [devices[d] EXCEPT !.revoked = TRUE] ELSE devices[d]],
                          NewDevice(slot, r.at))
         /\ under' = under \cup UploadsOf(out)
         /\ restored' = restored \ out
  /\ UNCHANGED <<cli, now, named>>

Register(r, slot) ==
  /\ r.kind = "register"
  /\ Len(devices) < MaxDevices
  /\ requests' = requests \ {r}
  /\ Waits("register_slot", slot) = 0
  /\ Counted("register_slot", slot)
  /\ devices' = Append(Replaced(slot), NewDevice(slot, r.at))
  /\ under' = under \cup UploadsOf(Holders(slot))
  /\ restored' = restored \ Holders(slot)
  /\ UNCHANGED <<cli, now, named>>

\* An upload with the token of a device: counted first, then its standing.
UploadArrives(d) ==
  /\ d \in DOMAIN devices /\ Cardinality(requests) < MaxRequests
  /\ Counted("upload", d)
  /\ IF Waits("upload", d) > 0 \/ ~Active(d) THEN UNCHANGED requests
     ELSE Await([kind |-> "upload", device |-> d])
  /\ UNCHANGED <<devices, under>> /\ Quiet

\* Its body has come; the standing is not looked at again.  What is stored, and
\* the counts of the device, are left out.
UploadEnds(r) ==
  /\ r.kind = "upload"
  /\ requests' = requests \ {r} /\ under' = under \ {r}
  /\ UNCHANGED <<devices, limits, passed>> /\ Quiet

-----------------------------------------------------------------------------
\* devices.py looks at the device ...
Look(op, d) ==
  /\ cli = None /\ d \in DOMAIN devices
  /\ Active(d) <=> op = "revoke"
  /\ cli' = [op |-> op, device |-> d]
  /\ UNCHANGED <<devices, limits, requests, now, passed, under, restored, named>>

\* ... and writes.
WriteRevoke ==
  /\ cli # None /\ cli.op = "revoke"
  /\ devices' = [devices EXCEPT ![cli.device].revoked = TRUE]
  /\ under' = under \cup UploadsOf({cli.device})
  /\ restored' = restored \ {cli.device}
  /\ named' = [named EXCEPT ![devices[cli.device].slot] = None]
  /\ cli' = None
  /\ UNCHANGED <<limits, requests, now, passed>>

WriteUnrevoke ==
  /\ cli # None /\ cli.op = "unrevoke"
  /\ devices' = [devices EXCEPT ![cli.device].revoked = FALSE]
  /\ restored' = restored \cup {cli.device}
  /\ named' = [named EXCEPT ![devices[cli.device].slot] = None]
  /\ cli' = None
  /\ UNCHANGED <<limits, requests, now, passed, under>>

\* A name is written without a look; the blank one takes the name away.
Alias(d, name) ==
  /\ d \in DOMAIN devices
  /\ devices' = [devices EXCEPT ![d].alias = name]
  /\ named' = [named EXCEPT ![devices[d].slot] =
                 IF ~Active(d) THEN @
                 ELSE IF Holders(devices[d].slot) = {d} /\ name # Blank THEN name ELSE None]
  /\ UNCHANGED <<limits, requests, cli, now, passed, under, restored>>

\* The hub stops and starts: requests and limits are gone.
Restart ==
  /\ requests' = {} /\ under' = {}
  /\ limits' = [b \in Buckets |-> NewLimiter(Key[b], now)]
  /\ passed' = [b \in Buckets |-> [k \in Key[b] |-> <<>>]]
  /\ UNCHANGED devices /\ Quiet

Tick ==
  /\ now < MaxTime
  /\ now' = now + 1
  /\ UNCHANGED <<devices, limits, requests, cli, passed, under, restored, named>>

-----------------------------------------------------------------------------
DInit ==
  /\ devices = <<>> /\ requests = {} /\ cli = None /\ now = 0
  /\ limits = [b \in Buckets |-> NewLimiter(Key[b], 0)]
  /\ passed = [b \in Buckets |-> [k \in Key[b] |-> <<>>]]
  /\ under = {}
  /\ restored = {}
  /\ named = [s \in Slots |-> None]

Administer ==
  \/ \E d \in DOMAIN devices : \E op \in {"revoke", "unrevoke"} : Look(op, d)
  \/ \E d \in DOMAIN devices : \E name \in Given \cup {Blank} : Alias(d, name)
  \/ WriteRevoke \/ WriteUnrevoke

Serve ==
  \/ \E ip \in Ips : RegisterArrives(ip)
  \/ \E d \in DOMAIN devices : UploadArrives(d)
  \/ \E r \in requests : RegisterBad(r) \/ UploadEnds(r)
  \/ \E r \in requests : \E s \in Slots : Register(r, s) \/ RegisterFails(r, s)

DNext == Administer \/ Serve \/ Restart \/ Tick

DSpec == DInit /\ [][DNext]_hvars

-----------------------------------------------------------------------------
\* Every variable has its type.
DTypeOK ==
  /\ devices \in Seq([slot : Slots, alias : Slots \cup Given \cup {Blank},
                      created : 0..now, revoked : BOOLEAN])
  /\ Len(devices) <= MaxDevices
  /\ \A b \in Buckets :
       /\ limits[b].swept \in 0..now
       /\ \A k \in Key[b] : limits[b].hits[k] # None =>
            limits[b].hits[k].start \in 0..now /\ limits[b].hits[k].count \in 1..Limit[b]
  /\ under \subseteq requests
  /\ restored \subseteq DOMAIN devices

\* A slot has one device in good standing: any other than the one registered
\* last has it from an administrator, given after it was replaced.
OneHolder ==
  \A d, e \in DOMAIN devices :
    d < e /\ devices[d].slot = devices[e].slot /\ Active(d) => d \in restored

\* A name an administrator gave to the one device that holds a slot stays with
\* the slot through any number of registrations, until he takes it away or
\* revokes or restores one of its devices himself (hub/db.py:364).
NameSurvives ==
  \A s \in Slots : named[s] # None =>
    \E d \in DOMAIN devices : Holders(s) = {d} /\ devices[d].alias = named[s]

\* An upload that arrives after its device lost its standing is not awaited:
\* only those under way then can still be stored (hub/devices.py:101).
NoneAfterRevoke ==
  \A r \in requests :
    r.kind = "upload" /\ ~Active(r.device) => r \in under

\* In no span shorter than the window are 2 * limit hits of a key let through,
\* although windows are fixed and swept away: one less can be.
RateBounded ==
  \A b \in Buckets : \A k \in Key[b] :
    LET p == passed[b][k]
        n == 2 * Limit[b] - 1
    IN  \A i \in 1..(Len(p) - n) : p[i + n] - p[i] >= Window

\* Whoever is refused and waits for the seconds he is told is let in, unless
\* others use the key meanwhile (docs/HUB-PROTOCOL.md:40).
RetryIsEnough ==
  \A b \in Buckets : \A k \in Key[b] : LET w == Waits(b, k) IN
    w > 0 => ~Refused(limits[b], k, now + w * Second, Limit[b])

=============================================================================
