------------------------------- MODULE SeedFile -------------------------------
(***************************************************************************)
(* The file of the seed (WalletUtils.writeSeedFile) and the operations of  *)
(* the program that write it, each through EclairActivity.encryptWallet:   *)
(* creating a wallet, restoring one from its words, encrypting the seed of *)
(* a very old version, changing the PIN.  The process may die between any  *)
(* two steps.  A seed file is represented by the PIN that opens it.        *)
(*                                                                         *)
(* Left out: the cipher; the PIN that is kept in the keystore for          *)
(* biometrics, which is one more source of a right or wrong PIN; the copy  *)
(* that Guava's Files.move falls back to when the rename fails; what a     *)
(* loss of power does to a file that has not been synced.                  *)
(***************************************************************************)
EXTENDS Integers, Sequences, FiniteSets

CONSTANTS Pins,       \* the PINs that the user may choose
          MaxWrites   \* bound on the number of times encryptWallet is confirmed

ASSUME SeedAssumption == Pins \subseteq Nat \ {0} /\ MaxWrites \in Nat

VARIABLES
  plain,   \* the unencrypted seed of an old version is there
  dat,     \* seed.dat
  temp,    \* the temporary file
  pin,     \* App.pin
  origin,  \* the preference SETTING_WALLET_ORIGIN
  write,   \* the encryptWallet under way, and why
  writes,  \* how many there were
  real,    \* how the wallet came into being
  known    \* the PINs that may be in force as far as the user has been told

seedVars == <<plain, dat, temp, pin, origin, write, writes, real, known>>

None == 0                     \* no file, no PIN
Torn == -1                    \* a file that was not written to its end
Reasons == {"create", "restore", "encrypt", "change"}
NoWrite == [pc |-> "idle", pin |-> None, why |-> "change"]

SeedTypeOK ==
  /\ plain \in BOOLEAN
  /\ dat \in Pins \cup {None} /\ temp \in Pins \cup {None, Torn}
  /\ pin \in Pins \cup {None}
  /\ origin \in {"unset", "scratch", "restored"}
  /\ write \in [pc : {"idle", "open", "fill", "check", "pin"},
                pin : Pins \cup {None}, why : Reasons]
  /\ writes \in 0 .. MaxWrites
  /\ real \in {"none", "old", "scratch", "restored"}
  /\ known \subseteq Pins

(* A new installation, one of the version that did not encrypt the seed, or
   one with a wallet. *)
SeedInit ==
  /\ real \in {"none", "old", "scratch"}
  /\ plain = (real = "old")
  /\ dat \in IF real = "scratch" THEN Pins ELSE {None}
  /\ known = IF real = "scratch" THEN {dat} ELSE {}
  /\ origin = IF real = "scratch" THEN "scratch" ELSE "unset"
  /\ temp = None /\ pin = None /\ write = NoWrite /\ writes = 0

------------------------------------------------------------------------------
(* The PIN has been typed twice.  The program lets the user come here to
   create or restore a wallet if there is none, to encrypt a seed that is
   not, and, with the present PIN, to change it. *)
EncryptWallet(p, why) ==
  /\ write.pc = "idle" /\ writes < MaxWrites
  /\ CASE why \in {"create", "restore"} -> dat = None /\ ~plain
       [] why = "encrypt" -> dat = None /\ plain
       [] why = "change"  -> dat # None
  /\ write' = [pc |-> "open", pin |-> p, why |-> why]
  /\ writes' = writes + 1
  /\ UNCHANGED <<plain, dat, temp, pin, origin, real, known>>

(* Mutant: the seed is written over seed.dat. *)
OpenInPlace ==
  /\ write.pc = "open" /\ dat' = None
  /\ write' = [write EXCEPT !.pc = "fill"]
  /\ UNCHANGED <<plain, temp, pin, origin, writes, real, known>>

(* writeSeedFile: the temporary file is opened, filled, read again and
   decrypted, and moved over seed.dat. *)
OpenTemp ==
  /\ write.pc = "open" /\ temp' = Torn
  /\ write' = [write EXCEPT !.pc = "fill"]
  /\ UNCHANGED <<plain, dat, pin, origin, writes, real, known>>

FillTemp ==
  /\ write.pc = "fill" /\ temp' = write.pin
  /\ write' = [write EXCEPT !.pc = "check"]
  /\ UNCHANGED <<plain, dat, pin, origin, writes, real, known>>

MoveTemp ==
  /\ write.pc = "check" /\ temp = write.pin
  /\ dat' = temp /\ temp' = None
  /\ real' = CASE write.why = "create"  -> "scratch"
               [] write.why = "restore" -> "restored"
               [] OTHER -> real
  /\ write' = [write EXCEPT !.pc = "pin"]
  /\ UNCHANGED <<plain, pin, origin, writes, known>>

WriteFails ==
  /\ write.pc \in {"open", "fill", "check"}
  /\ write' = NoWrite
  /\ UNCHANGED <<plain, dat, temp, pin, origin, writes, real, known>>

(* onEncryptSeedSuccess of the activity that asked. *)
OnSuccess ==
  /\ origin' = CASE write.why = "create"  -> "scratch"
                 [] write.why = "restore" -> "restored"
                 [] OTHER -> origin
  /\ known' = {write.pin}

(* The rest of encryptWallet.  The keystore may refuse to delete the key of
   the old PIN, and the user is told that the seed could not be written.
   In both cases the start-up screen checks the directory again, finds two
   seeds and deletes the one that is not encrypted. *)
SetPin ==
  /\ write.pc = "pin"
  /\ pin' = write.pin
  /\ \/ OnSuccess
     \/ known' = known \cup {write.pin} /\ UNCHANGED origin
  /\ plain' = (plain /\ write.why # "encrypt")
  /\ write' = NoWrite
  /\ UNCHANGED <<dat, temp, writes, real>>

SeedStep == OpenTemp \/ FillTemp \/ MoveTemp \/ WriteFails \/ SetPin

(* What is left when the process dies.  The user knows the PIN that was just
   typed, and not whether it has come into force. *)
SeedDies ==
  /\ pin' = None /\ write' = NoWrite
  /\ known' = IF write.pc = "pin" THEN known \cup {write.pin} ELSE known
  /\ UNCHANGED <<plain, dat, temp, origin, writes, real>>

------------------------------------------------------------------------------
(* Whatever fails or dies, a wallet that exists has a complete seed, and one
   of the PINs that the user has been told of opens it: an attempt that is
   reported as failed before the move has changed nothing. *)
SeedOpens == real # "none" => plain \/ dat \in known \/ write.pc = "pin"
==============================================================================
