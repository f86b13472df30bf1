----------------------------- MODULE MCDrivers -----------------------------
(***************************************************************************)
(* The runtime-created objects and the drivers for TLC.  They share no     *)
(* state in the models, so a behaviour uses one part: one group of objects *)
(* (a semaphore and a queue that compete for the table's last entry, a     *)
(* recursive mutex locked without and one locked with timeouts, or an      *)
(* event group), or one driver.                                            *)
(***************************************************************************)
EXTENDS DynObj, I2c, PicoPio, Station, Isolation, Boot, TLC

CONSTANTS sem, queue, mutex, mutexT, group,   \* objects
          Parts,                              \* the other parts to run
          taskA, irqA, taskB,                 \* openers, two of core 0 and one of core 1
          unitA, unitB, pioBlock, pinA, pinB  \* what they open

VARIABLE part

(* A part is a kind, and the objects or the controller it is about.        *)
Uses(kind, what) == [kind |-> kind, what |-> what]
AllParts == {Uses("objects", g) : g \in {{sem, queue}, {mutex}, {mutexT}, {group}}}
            \cup {Uses("i2c", {c}) : c \in Ctrls} \cup {Uses(k, {}) : k \in Parts}

(* Bus transfers: nothing, a write, a read, two ops, and refused ones.     *)
Op(w, r, b) == [w |-> w, r |-> r, bits |-> b]
SomeOps == {<<Op(0, 0, 8)>>, <<Op(2, 0, 8)>>, <<Op(0, 2, 8)>>, <<Op(1, 1, 8), Op(2, 0, 8)>>,
            <<Op(1, 0, 7)>>, <<Op(3, 1, 8)>>, <<Op(4, 0, 8)>>, <<Op(1, 3, 8)>>}

(* Every kind of unit against every other, from two cores and a handler.   *)
Opens(kind, unit, pins) == [kind |-> kind, unit |-> unit, pins |-> pins]
OnePlans == {Opens("i2c", unitA, <<pinA, pinB>>), Opens("spi", unitB, <<pinB, pinA>>),
             Opens("pwm", unitB, <<pinB>>), Opens("adc", unitA, <<pinA>>),
             Opens("uart", unitB, <<pinA, pinB>>), Opens("pio", pioBlock, <<pinA, pinB>>),
             Opens("pin", pinA, <<pinA>>), Opens("pin", pinB, <<pinB>>)}
OpenPlans == {f \in [Openers -> OnePlans] :
               f[irqA].kind \in {"pin", "pio"} /\ f[taskB].kind \in {"i2c", "pwm", "pio", "pin"}}
OpenerCores == taskA :> 0 @@ irqA :> 0 @@ taskB :> 1
EdgeGroups == pinA :> 1 @@ pinB :> 1

Pg(n, i, o) == [length |-> n, input |-> i, output |-> o]
SomePrograms == {Pg(1, FALSE, TRUE), Pg(2, TRUE, FALSE), Pg(1, FALSE, FALSE), Pg(4, FALSE, FALSE)}

driverVars == <<part, vars, spiVars, i2cVars, claimVars, pioVars, objectVars, phyVars, staVars, isoVars, bootVars>>

DriversInit ==
  /\ part \in AllParts
  /\ Init /\ SpiInit /\ I2cInit /\ PioBlockInit /\ ObjectsInit /\ PhyInit /\ StaInit /\ IsoInit
  /\ BootInit /\ (part.kind # "boot" => machine = "esp32")
  /\ ClaimInit /\ (part.kind # "claims" => plan = CHOOSE p \in Plans : TRUE)

DriversNext ==
  /\ UNCHANGED part
  /\ \/ part.kind = "objects" /\ Using(part.what)
     \/ part.kind # "objects" /\ UNCHANGED vars
  /\ \/ part.kind = "spi" /\ SpiNext
     \/ part.kind # "spi" /\ UNCHANGED spiVars
  /\ \/ part.kind = "i2c" /\ \E c \in part.what : I2cUsing(c)
     \/ part.kind # "i2c" /\ UNCHANGED i2cVars
  /\ \/ part.kind = "claims" /\ ClaimNext
     \/ part.kind # "claims" /\ UNCHANGED claimVars
  /\ \/ part.kind = "pio" /\ PioNext
     \/ part.kind # "pio" /\ UNCHANGED pioVars
  /\ \/ part.kind = "osi" /\ ObjectsNext
     \/ part.kind # "osi" /\ UNCHANGED objectVars
  /\ \/ part.kind = "phy" /\ PhyStateNext /\ UNCHANGED phyCsVars
     \/ part.kind = "phycs" /\ PhyCsNext /\ UNCHANGED phyStateVars
     \/ part.kind \notin {"phy", "phycs"} /\ UNCHANGED phyVars
  /\ \/ part.kind = "station" /\ StaNext
     \/ part.kind # "station" /\ UNCHANGED staVars
  /\ \/ part.kind = "isolation" /\ IsoNext
     \/ part.kind # "isolation" /\ UNCHANGED isoVars
  /\ \/ part.kind = "boot" /\ BootNext
     \/ part.kind # "boot" /\ UNCHANGED bootVars

DriversSpec == DriversInit /\ [][DriversNext]_driverVars

(* The type invariant of the part that runs. *)
TypeDrivers ==
  CASE part.kind = "objects" -> TypeOK [] part.kind = "spi" -> TypeSpi [] part.kind = "i2c" -> TypeI2c
    [] part.kind = "claims" -> TypeClaims [] part.kind = "pio" -> TypePio
    [] part.kind = "osi" -> TypeObjects [] part.kind \in {"phy", "phycs"} -> TypePhy
    [] part.kind = "station" -> TypeSta [] part.kind = "isolation" -> TypeIso [] part.kind = "boot" -> TypeBoot
=============================================================================
