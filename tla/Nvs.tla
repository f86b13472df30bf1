-------------------------------- MODULE Nvs --------------------------------
(***************************************************************************)
(* The radio's nvs_* calls and its calibration record, both on one KvStore.*)
(* A caller is a user of the C interface: it keeps the handle number that  *)
(* nvs_open gave it, and the name it asked for.                            *)
(***************************************************************************)
EXTENDS KvStore

CONSTANTS Users, Namespaces, MAX_HANDLES,
          KeyOf,            \* [Namespaces -> Keys]: the key each namespace uses here
          BlobValues,       \* the tagged values put may store
          EmptyValue,       \* what nvs_erase_key stores
          Chunks,           \* the chunk keys of a calibration, as a sequence
          Identity,         \* the version and address keys, as a sequence
          SumKey,
          Calibrations,     \* values: every record of a save carries its calibration
          NoName

ASSUME NvsAssumption ==
  /\ KeyOf \in [Namespaces -> Keys] /\ MAX_HANDLES \in Nat
  /\ BlobValues \subseteq Values /\ EmptyValue \in Values /\ Calibrations \subseteq Values
  /\ Chunks \in Seq(Keys) /\ Identity \in Seq(Keys) /\ SumKey \in Keys

VARIABLES handles,    \* slot -> [name, writable], name NoName when free
          held,       \* user -> the handle it holds (0 for none) and the name it opened
          registered  \* the radio has its calibration, this boot

nvsVars == <<handles, held, registered>>

Slots == 1..MAX_HANDLES
Free == [name |-> NoName, writable |-> FALSE]

NoHandles == [i \in Slots |-> Free]
NobodyHolds == [u \in Users |-> [h |-> 0, name |-> NoName]]

NvsInit == handles = NoHandles /\ held = NobodyHolds /\ registered = FALSE

TypeNvs ==
  /\ handles \in [Slots -> [name : Namespaces \cup {NoName}, writable : BOOLEAN]]
  /\ held \in [Users -> [h : 0..MAX_HANDLES, name : Namespaces \cup {NoName}]]
  /\ registered \in BOOLEAN

(* nvs_open: the slot already open under this name, else the first free one. *)
nvs_open(u, ns, rw) ==
  /\ held[u].h = 0
  /\ LET same == {i \in Slots : handles[i].name = ns}
         free == {i \in Slots : handles[i].name = NoName}
     IN  \/ /\ same # {}
            /\ held' = [held EXCEPT ![u] = [h |-> Min(same), name |-> ns]]
            /\ UNCHANGED handles
         \/ /\ same = {} /\ free # {}
            /\ handles' = [handles EXCEPT ![Min(free)] = [name |-> ns, writable |-> rw]]
            /\ held' = [held EXCEPT ![u] = [h |-> Min(free), name |-> ns]]
  /\ UNCHANGED <<registered, kvVars>>

(* nvs_close frees the slot, whoever else was given its number. *)
nvs_close(u) ==
  /\ held[u].h # 0
  /\ handles' = [handles EXCEPT ![held[u].h] = Free]
  /\ held' = [held EXCEPT ![u] = [h |-> 0, name |-> NoName]]
  /\ UNCHANGED <<registered, kvVars>>

(* set_tagged: the handle is open and writable; put stores under ns:key. *)
set_tagged(u, v) ==
  LET n == handles[held[u].h]
  IN  /\ held[u].h # 0 /\ n.name # NoName /\ n.writable
      /\ BeginSet(<<<<KeyOf[n.name], v>>>>, "put")
      /\ UNCHANGED nvsVars

nvs_erase_key(u) ==
  LET n == handles[held[u].h]
  IN  /\ held[u].h # 0 /\ n.name # NoName /\ n.writable
      /\ BeginSet(<<<<KeyOf[n.name], EmptyValue>>>>, "none")
      /\ UNCHANGED nvsVars

(* put, on Full: compact and set once more, or give up (no heap for the
   scratch, scratch too small, nothing to reclaim, or already retried). *)
PutCompacts ==
  /\ SetFull /\ call.policy = "put" /\ ~call.retried
  /\ CompactStart
  /\ call' = [call EXCEPT !.stage = "compact", !.retried = TRUE]
  /\ UNCHANGED <<flash, tail, trusted, faults>> /\ UNCHANGED nvsVars

GiveUp ==
  /\ SetFull
  /\ call.policy = "save" => call.retried
  /\ Return /\ UNCHANGED <<flash, tail, acked, trusted, faults>> /\ UNCHANGED nvsVars

(* compact_if_grown, at start-up. *)
compact_if_grown ==
  /\ phase = "idle" /\ tail > SECTOR_SIZE
  /\ CompactStart
  /\ call' = [NoCall EXCEPT !.stage = "compact"]
  /\ UNCHANGED <<flash, tail, trusted, faults>> /\ UNCHANGED nvsVars

(***************************************************************************)
(* The calibration record.                                                 *)
(***************************************************************************)

(* load: every record is there, and the checksum is that of the chunks.  The
   version and the address never change here, so they only have to exist. *)
Loads(f) ==
  /\ \A i \in DOMAIN Identity : Get(f, Identity[i]) # Missing
  /\ Get(f, SumKey) # Missing
  /\ \A i \in DOMAIN Chunks : Get(f, Chunks[i]) = Get(f, SumKey)

(* save: chunks, version, station address, and the checksum last. *)
Records(c) ==
  LET Under(k) == <<k, c>>
  IN  [i \in DOMAIN Chunks |-> Under(Chunks[i])]
        \o [i \in DOMAIN Identity |-> Under(Identity[i])] \o <<Under(SumKey)>>

(* register_with, once per boot: a stored calibration is used as it is; a
   full calibration gives a new one, which is saved. *)
register_with(c) ==
  /\ phase = "idle" /\ ~registered /\ registered' = TRUE
  /\ IF Loads(flash) THEN UNCHANGED kvVars ELSE BeginSet(Records(c), "save")
  /\ UNCHANGED <<handles, held>>

(* save_or_reset: erase everything and start over, once. *)
SaveResets ==
  /\ SetFull /\ call.policy = "save" /\ ~call.retried
  /\ phase' = "erase" /\ wr' = NoWrite
  /\ call' = [call EXCEPT !.stage = "reset", !.retried = TRUE]
  /\ UNCHANGED <<flash, tail, live, acked, trusted, faults>> /\ UNCHANGED nvsVars

(* A job under way has its key and never looks at the handle table again, so
   opening and closing handles between two of its steps would reach nothing
   that doing it before or after the job does not. *)
NvsNext ==
  \/ StoreNext /\ UNCHANGED nvsVars
  \/ Crash /\ handles' = NoHandles /\ held' = NobodyHolds /\ registered' = FALSE
  \/ Open /\ UNCHANGED nvsVars
  \/ \E u \in Users, ns \in Namespaces, rw \in BOOLEAN : phase = "idle" /\ nvs_open(u, ns, rw)
  \/ \E u \in Users : phase = "idle" /\ nvs_close(u)
  \/ \E u \in Users, v \in BlobValues : set_tagged(u, v)
  \/ \E u \in Users : nvs_erase_key(u)
  \/ PutCompacts \/ GiveUp \/ compact_if_grown
  \/ \E c \in Calibrations : register_with(c)
  \/ SaveResets

NvsSpec == KvInit /\ NvsInit /\ [][NvsNext]_<<kvVars, nvsVars>>
=============================================================================
