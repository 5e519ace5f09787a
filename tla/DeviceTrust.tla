---------------------------- MODULE DeviceTrust -----------------------------
(***************************************************************************)
(* Package devicetrust: which devices are known, which of them trusted.    *)
(* The in-process store changes a record under a mutex; the Redis store    *)
(* gets it, changes it and sets it, so that calls on one record can        *)
(* overlap.  Of a record only Trusted matters to an operation.             *)
(***************************************************************************)
EXTENDS Naturals

CONSTANTS Callers,     \* concurrent calls of RecordSeen and MarkDeviceTrusted
          Devices,     \* pairs of an account and a fingerprint
          NoDevice

VARIABLES store,       \* "memory" or "redis", fixed for a run
          devices,     \* the store: device -> "unknown", "seen" or "trusted"
          call,        \* caller -> how far its call is, and what it has read
          marked,      \* devices MarkDeviceTrusted has saved,
          raced        \*   and those it last saved during a RecordSeen of it

deviceVars == <<devices, call, marked, raced>>

Records == {"unknown", "seen", "trusted"}
NoCall == [op |-> "none", device |-> NoDevice, record |-> "unknown"]
Returned == [op |-> "returned", device |-> NoDevice, record |-> "unknown"]

TypeOK ==
  /\ store \in {"memory", "redis"}
  /\ devices \in [Devices -> Records]
  /\ call \in [Callers -> [op : {"none", "seen", "trust", "returned"},
                           device : Devices \cup {NoDevice}, record : Records]]
  /\ marked \subseteq Devices
  /\ raced \subseteq marked

Init ==
  /\ store \in {"memory", "redis"}
  /\ devices = [d \in Devices |-> "unknown"]
  /\ call = [c \in Callers |-> NoCall]
  /\ marked = {}
  /\ raced = {}

-----------------------------------------------------------------------------
IsKnownDevice(d) == devices[d] = "trusted"

(* Mistake: RecordSeen saves a new record over the old one. *)
UpdatedAnew(op, record) == IF op = "trust" THEN "trusted" ELSE "seen"

Updated(op, record) == IF op = "trust" \/ record = "trusted" THEN "trusted" ELSE "seen"

(* Calls of RecordSeen that have read d and not yet saved it. *)
Seeing(d) == {c \in Callers : call[c].op = "seen" /\ call[c].device = d}

Save(op, d, record) ==
  /\ devices' = [devices EXCEPT ![d] = Updated(op, record)]
  /\ marked' = IF op = "trust" THEN marked \cup {d} ELSE marked
  /\ raced' = CASE op = "seen" -> raced
                [] op = "trust" /\ Seeing(d) = {} -> raced \ {d}
                [] OTHER -> raced \cup {d}

-----------------------------------------------------------------------------
(* UpsertSeen and MarkTrusted of the in-process store. *)
MemoryCall(c, op, d) ==
  /\ store = "memory"
  /\ call[c] = NoCall
  /\ Save(op, d, devices[d])
  /\ call' = [call EXCEPT ![c] = Returned]

(* Those of the Redis store, first the Get, then the Set.                  *)
RedisGet(c, op, d) ==
  /\ store = "redis"
  /\ call[c] = NoCall
  /\ call' = [call EXCEPT ![c] = [op |-> op, device |-> d, record |-> devices[d]]]
  /\ UNCHANGED <<devices, marked, raced>>

RedisSet(c) ==
  /\ call[c].op \in {"seen", "trust"}
  /\ Save(call[c].op, call[c].device, call[c].record)
  /\ call' = [call EXCEPT ![c] = Returned]

RecordSeen(c, d) == MemoryCall(c, "seen", d) \/ RedisGet(c, "seen", d)

MarkDeviceTrusted(c, d) == MemoryCall(c, "trust", d) \/ RedisGet(c, "trust", d)

(* The Set failed, or its caller stopped; a failed Get changes nothing. *)
RedisFailed(c) ==
  /\ call[c].op \in {"seen", "trust"}
  /\ call' = [call EXCEPT ![c] = Returned]
  /\ UNCHANGED <<devices, marked, raced>>

-----------------------------------------------------------------------------
(* Only a device that was marked is trusted, and it stays trusted in the   *)
(* in-process store.  In Redis RecordSeen, which "updates last-seen for a  *)
(* device" (devicetrust.go), saves the whole record that it read: it takes *)
(* trust away from a device whose marking was saved between the two, from  *)
(* no other, and gives it to none.                                         *)
TrustKept ==
  /\ \A d \in Devices : IsKnownDevice(d) => d \in marked
  /\ \A d \in marked : IsKnownDevice(d) \/ (store = "redis" /\ d \in raced)
=============================================================================
