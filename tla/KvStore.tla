------------------------------ MODULE KvStore ------------------------------
(***************************************************************************)
(* The append-only key/value log (lib/kvstore) over flash that can only    *)
(* clear bits and may lose power between, or inside, any two word writes.  *)
(*                                                                         *)
(* Flash is a sequence of words.  An entry is a header word (magic and     *)
(* lengths), a checksum word and the body; programming a word that is not  *)
(* erased ANDs the two, which is neither of them unless they happen to     *)
(* agree (Garbage).  The checksum is taken to be free of collisions.       *)
(***************************************************************************)
EXTENDS Integers, Sequences, FiniteSetsExt

CONSTANTS Keys, Values,
          BodyWords,   \* [Values -> Nat]: words of key and value together
          CAPACITY,    \* words of the partition
          SECTOR_SIZE, \* words of an erase unit
          SCRATCH,     \* words of the buffer compaction works in
          MAX_FAULTS   \* bound: crashes and failed flash operations

HEADER_LEN == 2

ASSUME KvAssumption ==
  /\ BodyWords \in [Values -> Nat \ {0}]
  /\ CAPACITY \in Nat /\ SECTOR_SIZE \in Nat \ {0} /\ SCRATCH \in Nat /\ MAX_FAULTS \in Nat
  /\ CAPACITY % SECTOR_SIZE = 0

VARIABLES flash,   \* words 1..CAPACITY
          tail,    \* words in use, as the open store believes
          phase,   \* "down", "idle", "set", "program", "erase", "copy"
          wr,      \* the Storage::write in progress: where, and what is left
          call,    \* the caller's job: entries still to set, and what it does when full
          live,    \* compaction's scratch: the entries to write back
          acked,   \* history: what completed calls have stored, key by key
          trusted, \* history: every set since the last erase met the Contract
          faults   \* crashes and failures so far

kvVars == <<flash, tail, phase, wr, call, live, acked, trusted, faults>>

Entry == Keys \X Values
Missing == <<"missing">>
Erased  == <<"erased">>
Garbage == <<"garbage">>

EntryLen(e) == HEADER_LEN + BodyWords[e[2]]

(* What set() assembles for an entry. *)
Image(e) == [i \in 1..EntryLen(e) |->
               CASE i = 1 -> <<"header", EntryLen(e)>> [] i = 2 -> <<"crc", e>> [] OTHER -> <<"body", e, i - 2>>]

KvWord == {Erased, Garbage} \cup UNION {{Image(e)[i] : i \in 1..EntryLen(e)} : e \in Entry}

(* The possible contents of a word after programming new over old. *)
Programmed(old, new) == IF old \in {Erased, new} THEN {new} ELSE {old, new, Garbage}

(* entry_into: the entry that starts after word at, if the magic, the
   lengths, the bounds and the checksum all hold. *)
EntriesAt(f, at) ==
  {e \in Entry : /\ at + EntryLen(e) <= CAPACITY
                 /\ \A i \in 1..EntryLen(e) : f[at + i] = Image(e)[i]}

(* The scan, one entry to a round, until a word does not begin one.  An entry is
   longer than its header, so ROUNDS of them always reach the end. *)
ROUNDS == CAPACITY \div HEADER_LEN

(* A first word without the magic ends the scan before anything else is looked at. *)
MagicAt(f, at) == at # CAPACITY /\ f[at + 1][1] = "header"

ScanStep(f, s) ==
  LET es == EntriesAt(f, s.at)
      e == CHOOSE x \in es : TRUE
  IN  IF ~MagicAt(f, s.at) \/ es = {} THEN s ELSE [at |-> s.at + EntryLen(e), log |-> Append(s.log, e)]

ScanFrom(f) ==
  LET Round[n \in 0..ROUNDS] ==
        IF n = 0 THEN [at |-> 0, log |-> <<>>] ELSE ScanStep(f, Round[n - 1])
  IN  Round

Log(f) == ScanFrom(f)[ROUNDS].log
LogEnd(f) == ScanFrom(f)[ROUNDS].at

(* The words of the first entries of a log, and of all. *)
WordsUpto(log) ==
  LET Upto[i \in 0..Len(log)] == IF i = 0 THEN 0 ELSE Upto[i - 1] + EntryLen(log[i])
  IN  Upto

WordsOf(log) == WordsUpto(log)[Len(log)]

(* Mutant: get stops at the first match. *)
OldestFound(log, k) ==
  LET hits == {i \in DOMAIN log : log[i][1] = k}
  IN  IF hits = {} THEN Missing ELSE log[Min(hits)][2]

(* get: forward, keeping the last match. *)
Newest(log, k) ==
  LET hits == {i \in DOMAIN log : log[i][1] = k}
  IN  IF hits = {} THEN Missing ELSE log[Max(hits)][2]

Get(f, k) == Newest(Log(f), k)

(* find_key: where the scratch has an entry under k. *)
FoundAt(s, k) == {i \in DOMAIN s : s[i][1] = k}

(* compact's scratch: a later entry drops the older copy and goes last. *)
Copied(s, e) ==
  LET p == Min(FoundAt(s, e[1]))
  IN  IF FoundAt(s, e[1]) = {} THEN Append(s, e)
      ELSE Append(SubSeq(s, 1, p - 1) \o SubSeq(s, p + 1, Len(s)), e)

Scratches(log) ==
  LET Upto[i \in 0..Len(log)] == IF i = 0 THEN <<>> ELSE Copied(Upto[i - 1], log[i])
  IN  Upto

LiveEntries(f) == LET log == Log(f) IN Scratches(log)[Len(log)]

(* compact gives up when the scratch overflows at any entry it copies. *)
FitsScratch(f) ==
  LET log == Log(f) IN \A i \in 1..Len(log) : WordsOf(Scratches(log)[i]) <= SCRATCH

NoCall == [todo |-> <<>>, all |-> <<>>, policy |-> "none", stage |-> "set", retried |-> FALSE]
NoWrite == [at |-> 0, left |-> <<>>]

TypeKv ==
  /\ flash \in [1..CAPACITY -> KvWord]
  /\ tail \in 0..CAPACITY
  /\ phase \in {"down", "idle", "set", "program", "erase", "copy"}
  /\ phase = "program" => wr.left # <<>> /\ wr.at + Len(wr.left) <= CAPACITY
  /\ acked \in [Keys -> Values \cup {Missing}]
  /\ trusted \in BOOLEAN /\ faults \in 0..MAX_FAULTS

KvInit ==
  /\ flash = [w \in 1..CAPACITY |-> Erased]
  /\ tail = 0 /\ phase = "idle" /\ wr = NoWrite /\ call = NoCall /\ live = <<>>
  /\ acked = [k \in Keys |-> Missing] /\ trusted = TRUE /\ faults = 0

(***************************************************************************)
(* The calls.  STORE's spinlock admits one at a time.                      *)
(***************************************************************************)

(* What Storage::write asks of its caller, for everything set will ever append. *)
Contract == tail = LogEnd(flash) /\ \A w \in tail + 1 .. CAPACITY : flash[w] = Erased

Stored(f) == LET log == Log(f) IN [k \in Keys |-> Newest(log, k)]

(* A caller begins a job of one or more sets. *)
BeginSet(entries, policy) ==
  /\ phase = "idle"
  /\ phase' = "set"
  /\ call' = [NoCall EXCEPT !.todo = entries, !.all = entries, !.policy = policy]
  /\ UNCHANGED <<flash, tail, wr, live, acked, trusted, faults>>

Return == phase' = "idle" /\ call' = NoCall /\ wr' = NoWrite /\ live' = <<>>

(* set: there is room, so assemble the entry and hand it to the storage. *)
SetFits ==
  /\ phase = "set" /\ call.todo # <<>>
  /\ tail + EntryLen(Head(call.todo)) <= CAPACITY
  /\ wr' = [at |-> tail, left |-> Image(Head(call.todo))]
  /\ trusted' = (trusted /\ Contract)
  /\ phase' = "program"
  /\ UNCHANGED <<flash, tail, call, live, acked, faults>>

SetFull == phase = "set" /\ call.todo # <<>> /\ tail + EntryLen(Head(call.todo)) > CAPACITY

(* One word reaches the flash; the last one completes the entry and moves the tail. *)
ProgramWord ==
  /\ phase = "program"
  /\ \E w \in Programmed(flash[wr.at + 1], Head(wr.left)) : flash' = [flash EXCEPT ![wr.at + 1] = w]
  /\ UNCHANGED <<trusted, live, faults>>
  /\ IF Len(wr.left) > 1
     THEN /\ wr' = [at |-> wr.at + 1, left |-> Tail(wr.left)]
          /\ UNCHANGED <<tail, phase, call, acked>>
     ELSE /\ wr' = NoWrite /\ tail' = wr.at + 1
          /\ IF call.stage = "compact"
             THEN phase' = "copy" /\ UNCHANGED <<call, acked>>
             ELSE /\ acked' = [acked EXCEPT ![Head(call.todo)[1]] = Head(call.todo)[2]]
                  /\ call' = [call EXCEPT !.todo = Tail(@)]
                  /\ phase' = "set"

(* The job's last entry is down: Ok. *)
Finish ==
  /\ phase = "set" /\ call.todo = <<>>
  /\ Return /\ UNCHANGED <<flash, tail, acked, trusted, faults>>

(* compact: past this point the store is gone until the write-back ends. *)
CompactStart ==
  /\ FitsScratch(flash) /\ WordsOf(LiveEntries(flash)) # tail
  /\ live' = LiveEntries(flash) /\ wr' = NoWrite /\ phase' = "erase"
  /\ acked' = IF trusted THEN acked ELSE Stored(flash)

(* erase_all takes a sector at a time; only then is the tail zero. *)
EraseSector ==
  /\ phase = "erase"
  /\ flash' = [w \in 1..CAPACITY |->
                 IF w \in wr.at + 1 .. wr.at + SECTOR_SIZE THEN Erased ELSE flash[w]]
  /\ UNCHANGED <<live, faults>>
  /\ IF wr.at + SECTOR_SIZE < CAPACITY
     THEN wr' = [wr EXCEPT !.at = @ + SECTOR_SIZE] /\ UNCHANGED <<tail, phase, call, acked, trusted>>
     ELSE /\ wr' = NoWrite /\ tail' = 0 /\ trusted' = TRUE
          /\ IF call.stage = "compact"
             THEN phase' = "copy" /\ UNCHANGED <<call, acked>>
             ELSE /\ phase' = "set" /\ acked' = [k \in Keys |-> Missing]
                  /\ call' = [call EXCEPT !.todo = call.all, !.stage = "set"]

(* compact's write-back, one entry per write. *)
CopyBack ==
  /\ phase = "copy" /\ live # <<>>
  /\ wr' = [at |-> tail, left |-> Image(Head(live))] /\ live' = Tail(live)
  /\ phase' = "program"
  /\ UNCHANGED <<flash, tail, call, acked, trusted, faults>>

(* compact is done: put tries its set again, anybody else returns. *)
CompactDone ==
  /\ phase = "copy" /\ live = <<>>
  /\ IF call.todo # <<>>
     THEN phase' = "set" /\ call' = [call EXCEPT !.stage = "set"] /\ UNCHANGED <<wr, live>>
     ELSE Return
  /\ UNCHANGED <<flash, tail, acked, trusted, faults>>

(***************************************************************************)
(* Faults.  An interrupted word is old, new or neither of them; an entry   *)
(* whose last word made it counts as stored.  Interrupted compaction loses *)
(* what it had not written back, as its documentation says.                *)
(***************************************************************************)
Rewriting == phase \in {"erase", "copy"} \/ call.stage # "set"

Interrupted ==
  /\ faults < MAX_FAULTS /\ faults' = faults + 1
  /\ IF phase = "program"
     THEN \E w \in {flash[wr.at + 1], Head(wr.left), Garbage} :
            flash' = [flash EXCEPT ![wr.at + 1] = w]
     ELSE UNCHANGED flash
  /\ acked' = IF Rewriting THEN Stored(flash')
              ELSE IF phase = "program" /\ Head(call.todo)[2] = Get(flash', Head(call.todo)[1])
              THEN [acked EXCEPT ![Head(call.todo)[1]] = Head(call.todo)[2]]
              ELSE acked
  /\ UNCHANGED trusted

(* The storage refuses part-way (a flash timeout): Io, and the tail stays. *)
StorageFails ==
  /\ phase \in {"program", "erase"}
  /\ Interrupted /\ Return /\ UNCHANGED tail

Crash ==
  /\ phase # "down"
  /\ Interrupted
  /\ phase' = "down" /\ call' = NoCall /\ wr' = NoWrite /\ live' = <<>> /\ tail' = 0

(* open: scan to the end of the log. *)
Open ==
  /\ phase = "down" /\ phase' = "idle"
  /\ tail' = LogEnd(flash)
  /\ UNCHANGED <<flash, wr, call, live, acked, trusted, faults>>

StoreNext ==
  \/ SetFits \/ ProgramWord \/ Finish \/ EraseSector \/ CopyBack \/ CompactDone
  \/ StorageFails

(***************************************************************************)
(* Properties.                                                             *)
(***************************************************************************)

(* While every set so far met the storage's contract, a value whose set
   returned Ok is what get returns, through any crash or failed write outside
   a rewrite of the log (lib/kvstore/src/lib.rs: set, get, open, compact). *)
AckedSurvives == trusted /\ ~Rewriting => Stored(flash) = acked

(* What a test of lib/kvstore says without a condition: "A torn write must not
   strand the space after it either: the next boot has to be able to keep
   writing", so that a set that returned Ok can be read.  Not an invariant: the
   next entry is programmed over what the torn one left. *)
AckedReadable == phase = "idle" => \A k \in Keys : acked[k] # Missing => Get(flash, k) = acked[k]
=============================================================================
