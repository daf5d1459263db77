------------------------------ MODULE FirstBoot ------------------------------
(***************************************************************************)
(* pi/porchlight-firstboot.py: a birth certificate on the boot partition   *)
(* becomes a credential, an identity and a configuration, and is then      *)
(* destroyed.  Run at every boot, because a re-minted card carries a new   *)
(* certificate.                                                            *)
(*                                                                         *)
(* What a program wrote and what the card holds differ until the kernel    *)
(* writes it back: the script only syncs the certificate it overwrites.    *)
(* When the power goes each file that was not written back is the old one, *)
(* the new one, or - it was truncated in place - neither.                  *)
(***************************************************************************)

\* What the certificate is turned into, in this order.
Product == {"credential", "identity", "config"}
File == Product \cup {"certificate", "marker"}

\* Nothing, of an earlier mint, of the newest one, or not readable.
Content == {"none", "old", "minted", "torn"}

VARIABLES file,    \* what a program reads
          card,    \* what is on the card
          step,    \* where run() stands; off, or how it ended
          kept,    \* the certificate has yet to be destroyed, or could not be
          lossy    \* the power went between that and the last write back

bootVars == <<file, card, step, kept, lossy>>

Outcome == {"ok", "failed", "unminted"}

BootTypeOK ==
  /\ file \in [File -> Content]
  /\ card \in [File -> Content]
  /\ step \in Product \cup Outcome \cup {"off", "read", "hostname", "overwrite", "unlink", "marker"}
  /\ kept \in BOOLEAN
  /\ lossy \in BOOLEAN

\* A flashed and minted card; the image ships a configuration.
BootInit ==
  /\ card = [f \in File |-> IF f = "certificate" THEN "minted"
                            ELSE IF f = "config" THEN "old" ELSE "none"]
  /\ file = card
  /\ step = "off"
  /\ kept = TRUE
  /\ lossy = FALSE

GoTo(next) == step' = next

Store(f, content) ==
  /\ file' = [file EXCEPT ![f] = content]
  /\ UNCHANGED <<card, kept, lossy>>

Untouched == UNCHANGED <<file, card, kept, lossy>>

-----------------------------------------------------------------------------
PowerOn ==
  /\ step = "off"
  /\ GoTo("read") /\ Untouched

\* The first lines of run(), and check(): a certificate that cannot be used is
\* left where a laptop can read it.
Read ==
  /\ step = "read"
  /\ \/ file["certificate"] = "none" /\ file["marker"] # "none" /\ GoTo("ok")
     \/ file["certificate"] = "none" /\ file["marker"] = "none" /\ GoTo("unminted")
     \/ file["certificate"] = "torn" /\ GoTo("failed")
     \/ file["certificate"] = "minted" /\ GoTo("credential")
  /\ Untouched

\* Fault: an error while writing is noted and passed over.
WriteAnyway(f, next) ==
  /\ step = f
  /\ GoTo(next)
  /\ Store(f, "minted") \/ Untouched

\* write(): in place, and an error ends the run with the certificate kept.  The
\* configuration is read first, and one that cannot be read is an error too.
WriteProduct(f, next) ==
  /\ step = f
  /\ \/ /\ f = "config" => file[f] # "torn"
        /\ Store(f, "minted")
        /\ GoTo(next)
     \/ /\ Store(f, "torn") \/ Untouched
        /\ GoTo("failed")

\* Best effort, with hostnamectl or without.
WriteHostname ==
  /\ step = "hostname"
  /\ GoTo("overwrite") /\ Untouched

\* Fault: overwritten, and left to the kernel.
OverwriteLater ==
  /\ step = "overwrite"
  /\ file' = [file EXCEPT !["certificate"] = "torn"]
  /\ kept' = FALSE
  /\ GoTo("unlink")
  /\ UNCHANGED <<card, lossy>>

\* The first half of destroy(), with fsync.
Overwrite ==
  /\ step = "overwrite"
  /\ file' = [file EXCEPT !["certificate"] = "torn"]
  /\ card' = [card EXCEPT !["certificate"] = "torn"]
  /\ kept' = FALSE
  /\ GoTo("unlink")
  /\ UNCHANGED lossy

\* The second half.
Unlink ==
  /\ step = "unlink"
  /\ Store("certificate", "none")
  /\ GoTo("marker")

\* Neither half is worth failing for.
DestroyFails ==
  /\ step \in {"overwrite", "unlink"}
  /\ GoTo("marker")
  /\ Store("certificate", "torn") \/ Untouched

\* touch(): outside the try, an error ends the script all the same.
Touch ==
  /\ step = "marker"
  /\ \/ GoTo("ok") /\ Store("marker", "minted")
     \/ GoTo("failed") /\ Untouched

-----------------------------------------------------------------------------
\* The kernel writes back; that some files go first shows in PowerCut.
WriteBack ==
  /\ card # file
  /\ card' = file
  /\ UNCHANGED <<file, step, kept, lossy>>

Survives(f) ==
  {card[f]} \cup (IF card[f] = file[f] THEN {} ELSE {file[f], "torn"})

\* An unlink is done or not.
After(f) == IF f = "certificate" THEN {card[f], file[f]} ELSE Survives(f)

PowerCut ==
  /\ step # "off"
  /\ card' \in {c \in [File -> Content] : \A f \in File : c[f] \in After(f)}
  /\ file' = card'
  /\ step' = "off"
  /\ lossy' = (lossy \/ (file["certificate"] # "minted" /\ \E f \in Product : card[f] # file[f]))
  /\ UNCHANGED kept

\* On the production line, with the card out of the device: the mint before is
\* revoked.
Mint ==
  /\ step = "off"
  /\ card' = [f \in File |->
                IF f = "certificate" THEN "minted"
                ELSE IF card[f] = "minted" /\ f # "marker" THEN "old" ELSE card[f]]
  /\ file' = card'
  /\ kept' = TRUE
  /\ lossy' = FALSE
  /\ UNCHANGED step

Script ==
  \/ Read
  \/ WriteProduct("credential", "identity")
  \/ WriteProduct("identity", "config")
  \/ WriteProduct("config", "hostname")
  \/ WriteHostname
  \/ Overwrite \/ Unlink \/ DestroyFails
  \/ Touch

BootNext == PowerOn \/ Script \/ WriteBack \/ PowerCut \/ Mint

BootSpec == BootInit /\ [][BootNext]_bootVars

-----------------------------------------------------------------------------
(* Properties.                                                             *)

\* Once the script has overwritten the certificate, no power cut at any moment
\* brings the secret back onto a partition that any laptop reads.
SecretGone == ~ kept => card["certificate"] # "minted"

\* A run that ends well, at this boot or after any number of cuts and errors in
\* earlier ones, leaves a device that is whole and of one mint - if the power
\* did not go while the last of it was still in memory.
ProvisionedIsWhole ==
  step = "ok" /\ ~ lossy => \A f \in Product : file[f] = "minted"

-----------------------------------------------------------------------------
(* What the comments say and the code does not do.                         *)

\* "A card that lost power halfway through has to be able to run this again, and
\* it can only do that while the certificate is still there."
CanRunAgain == file["certificate"] = "minted" \/ file["credential"] = "minted"
=============================================================================
