----------------------------- MODULE MCDevices -----------------------------
(***************************************************************************)
(* The storage, the radio glue and the serial port, which share no state   *)
(* in the models, one to a behaviour, as in MCPlatform.                    *)
(***************************************************************************)
EXTENDS Nvs, FlashWindow, Wpa, UsbSerial, RadioTasks, EtsTimer, RadioInput, TLC

CONSTANTS Units,                       \* the parts to run
          ns1,                         \* a namespace of the store
          key1, keyChunk, keyId, keySum,   \* its keys
          valBlob, valEmpty, valCal    \* a blob, the empty value, a calibration

VARIABLE unit

(* A value of two words and values of one. *)
StoreBody == [v \in {valBlob, valEmpty, valCal} |-> IF v = valBlob THEN 2 ELSE 1]
StoreKeyOf == ns1 :> key1
StoreChunks == <<keyChunk>>
StoreIdentity == <<keyId>>

(* The interrupt inputs are alike, and the users of the store. *)
Alike == Permutations(Irqs) \cup Permutations(Users)

storeVars == <<kvVars, nvsVars>>
deviceVars == <<unit, storeVars, flashVars, wpaVars, usbVars, blobVars, etsVars, inputVars>>

DevicesInit ==
  /\ unit \in Units
  /\ KvInit /\ NvsInit /\ FlashInit /\ WpaInit /\ UsbInit /\ BlobInit /\ EtsInit /\ InputInit
  /\ unit # "flash" => chip.prot
  /\ unit # "usb" => usb = ColdUsb

DevicesNext ==
  /\ UNCHANGED unit
  /\ \/ unit = "store" /\ NvsNext
     \/ unit # "store" /\ UNCHANGED storeVars
  /\ \/ unit = "flash" /\ FlashNext
     \/ unit # "flash" /\ UNCHANGED flashVars
  /\ \/ unit = "wpa" /\ WpaNext
     \/ unit # "wpa" /\ UNCHANGED wpaVars
  /\ \/ unit = "usb" /\ UsbNext
     \/ unit # "usb" /\ UNCHANGED usbVars
  /\ \/ unit = "tasks" /\ BlobNext
     \/ unit # "tasks" /\ UNCHANGED blobVars
  /\ \/ unit = "timers" /\ EtsNext
     \/ unit # "timers" /\ UNCHANGED etsVars
  /\ \/ unit = "input" /\ InputNext
     \/ unit # "input" /\ UNCHANGED inputVars

DevicesSpec == DevicesInit /\ [][DevicesNext]_deviceVars

(* The type invariant of the part that runs. *)
TypeDevices ==
  CASE unit = "store" -> TypeKv /\ TypeNvs [] unit = "flash" -> TypeFlash [] unit = "wpa" -> TypeWpa
    [] unit = "usb" -> TypeUsb [] unit = "tasks" -> TypeBlob [] unit = "timers" -> TypeEts
    [] unit = "input" -> TypeInput
=============================================================================
