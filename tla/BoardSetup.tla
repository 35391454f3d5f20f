----------------------------- MODULE BoardSetup ------------------------------
(***************************************************************************)
(* What the setup scripts do to a board, and the backup of the STM32's     *)
(* stock firmware through all of it: board/qstep-firstboot at every boot   *)
(* of a QStep image until its mark is there, board/install.sh on Arduino's *)
(* image or later, tools/restore-stock.sh back.                            *)
(*                                                                         *)
(* A script is modelled step by step, because any step may fail (`set -e`   *)
(* ends the script) and power may go at any point.  Files are kept as they *)
(* were at that moment, in the order they were written.  One script runs   *)
(* at a time.                                                              *)
(***************************************************************************)
EXTENDS Integers

CONSTANT MAX_FAULTS   \* bound of the model: failing steps and power cuts

ASSUME SetupAssumption == MAX_FAULTS \in Nat

VARIABLES
    os,       \* "image" (QStep's) or "arduino"
    script,   \* the one that runs, or "none"
    pc,       \* its next step; "off": no power, "idle": no script
    config,   \* how far ~/qstep-config has got
    backup,   \* mcu-flash-backup.bin of each script: the contents, or "none"
    tmp,      \* its .tmp; "cut": not all of it
    saved,    \* the backups that restore-stock.sh has copied off the board
    flash,    \* the STM32's; "part": erased and not all written
    done,     \* firstboot-done
    faults,   \* how many there were
    unsaved   \* history: restore-stock.sh wiped a backup it had not copied, or
              \* was cut off writing the loader when there was no backup at all

files == <<config, backup, tmp, done>>
vars == <<os, script, pc, files, saved, flash, faults, unsaved>>

Installers == {"firstboot", "install"}   \* /var/lib/qstep and /root/qstep
Contents == {"stock", "part", "qstep"}
Steps == {"config", "copy", "chown", "backup", "dump", "rename", "program",
          "verify", "mark", "burn", "burnt"}

Init ==
    /\ os \in {"image", "arduino"} /\ script = "none" /\ pc = "off"
    /\ config \in {"none", "whole"}     \* the flasher may keep /home/arduino
    /\ backup = [s \in Installers |-> "none"] /\ tmp = backup
    /\ saved = {} /\ flash = "stock" /\ done = FALSE
    /\ faults = 0 /\ unsaved = FALSE

\* There is no backup, on the board or off it.
Bare == saved = {} /\ \A s \in Installers : backup[s] = "none"

At(step, next) == pc = step /\ pc' = next /\ UNCHANGED script
Ends == pc' = "idle" /\ script' = "none"

-----------------------------------------------------------------------------
(* Power.  The first boot's unit runs unless its mark is there. *)

\* Mutation: it runs unless the configuration is there.
BootIfNew ==
    /\ pc = "off"
    /\ IF os = "image" /\ config = "none"
       THEN pc' = "config" /\ script' = "firstboot"
       ELSE Ends
    /\ UNCHANGED <<os, files, saved, flash, faults, unsaved>>

Boot ==
    /\ pc = "off"
    /\ IF os = "image" /\ ~done
       THEN pc' = "config" /\ script' = "firstboot"
       ELSE Ends
    /\ UNCHANGED <<os, files, saved, flash, faults, unsaved>>

PowerOff ==
    /\ pc = "idle" /\ pc' = "off"
    /\ UNCHANGED <<os, script, files, saved, flash, faults, unsaved>>

\* A power cut in a script, or a step that fails.
Fault ==
    /\ pc \in Steps /\ faults < MAX_FAULTS
    /\ faults' = faults + 1
    /\ pc' \in {"off", "idle"} /\ script' = "none"
    /\ unsaved' = (unsaved \/ (pc = "burnt" /\ Bare))
    /\ UNCHANGED <<os, files, saved, flash>>

-----------------------------------------------------------------------------
(* The configuration.  The first boot copies it if there is no directory,   *)
(* the installer file by file over what is there.                          *)

SkipConfig ==
    /\ script = "firstboot" /\ config # "none" /\ At("config", "backup")
    /\ UNCHANGED <<os, files, saved, flash, faults, unsaved>>

StartConfig ==
    /\ script = "install" \/ config = "none"
    /\ At("config", "copy")
    /\ config' = "part"
    /\ UNCHANGED <<os, backup, tmp, saved, flash, done, faults, unsaved>>

CopyConfig ==
    /\ At("copy", "chown")
    /\ config' = "root's"
    /\ UNCHANGED <<os, backup, tmp, saved, flash, done, faults, unsaved>>

\* install.sh may have been asked for the configuration only.
OwnConfig ==
    /\ \/ At("chown", "backup")
       \/ pc = "chown" /\ script = "install" /\ Ends
    /\ config' = "whole"
    /\ UNCHANGED <<os, backup, tmp, saved, flash, done, faults, unsaved>>

-----------------------------------------------------------------------------
(* The backup of the flash, once for each script, and the firmware.         *)

SkipBackup ==
    /\ At("backup", "program") /\ backup[script] # "none"
    /\ UNCHANGED <<os, files, saved, flash, faults, unsaved>>

\* dump_image writes to the .tmp.  Mutation: to the backup itself.
StartDumpDirect ==
    /\ At("backup", "dump") /\ backup[script] = "none"
    /\ backup' = [backup EXCEPT ![script] = "cut"]
    /\ UNCHANGED <<os, config, tmp, saved, flash, done, faults, unsaved>>

StartDump ==
    /\ At("backup", "dump") /\ backup[script] = "none"
    /\ tmp' = [tmp EXCEPT ![script] = "cut"]
    /\ UNCHANGED <<os, config, backup, saved, flash, done, faults, unsaved>>

Dump ==
    /\ At("dump", "rename")
    /\ tmp' = [tmp EXCEPT ![script] = flash]
    /\ UNCHANGED <<os, config, backup, saved, flash, done, faults, unsaved>>

Rename ==
    /\ At("rename", "program")
    /\ backup' = [backup EXCEPT ![script] = tmp[script]]
    /\ tmp' = [tmp EXCEPT ![script] = "none"]
    /\ UNCHANGED <<os, config, saved, flash, done, faults, unsaved>>

Program ==
    /\ At("program", "verify")
    /\ flash' = "part"
    /\ UNCHANGED <<os, files, saved, faults, unsaved>>

\* "Verified OK"; only the first boot has a mark to set.
Verify ==
    /\ \/ At("verify", "mark") /\ script = "firstboot"
       \/ pc = "verify" /\ script = "install" /\ Ends
    /\ flash' = "qstep"
    /\ UNCHANGED <<os, files, saved, faults, unsaved>>

Mark ==
    /\ pc = "mark" /\ Ends
    /\ done' = TRUE
    /\ UNCHANGED <<os, config, backup, tmp, saved, flash, faults, unsaved>>

Install ==
    /\ pc = "idle"
    /\ pc' \in {"config", "backup"} /\ script' = "install"
    /\ UNCHANGED <<os, files, saved, flash, faults, unsaved>>

-----------------------------------------------------------------------------
(* restore-stock.sh. *)

\* backup_board copies /root/qstep, if the board is up, has it, and adb pull
\* does not fail, which nothing tests; then the Linux image is flashed over
\* all that is on the board.  A board of QStep's image has its backup elsewhere,
\* in /var/lib/qstep.  The script goes on with restore_mcu when the board is up
\* again, unless it gives up waiting.  Mutation: nothing is copied.
RestoreUnsaved ==
    /\ pc \in {"idle", "off"} /\ pc' = "off"
    /\ os' = "arduino" /\ config' = "none" /\ done' = FALSE
    /\ backup' = [s \in Installers |-> "none"] /\ tmp' = backup'
    /\ UNCHANGED <<script, saved, flash, faults, unsaved>>

Restore ==
    /\ pc \in {"idle", "off"} /\ pc' = "off"
    /\ \/ /\ pc = "idle"
          /\ saved' = saved \cup ({backup["install"]} \ {"none"})
          /\ unsaved' = (unsaved \/ backup["firstboot"] # "none")
       \/ /\ UNCHANGED saved
          /\ unsaved' = (unsaved \/ \E s \in Installers : backup[s] # "none")
    /\ os' = "arduino" /\ config' = "none" /\ done' = FALSE
    /\ backup' = [s \in Installers |-> "none"] /\ tmp' = backup'
    /\ UNCHANGED <<script, flash, faults>>

\* restore_mcu, with --mcu-only or after the wipe: Arduino's own loader is written,
\* whatever the STM32 holds.
RestoreMcu ==
    /\ pc = "idle" /\ pc' = "burn" /\ script' = "restore"
    /\ UNCHANGED <<os, files, saved, flash, faults, unsaved>>

Burn ==
    /\ \/ At("burn", "burnt") /\ flash' = "part"
       \/ pc = "burnt" /\ Ends /\ flash' = "stock"
    /\ UNCHANGED <<os, files, saved, faults, unsaved>>

-----------------------------------------------------------------------------

Step ==
    \/ SkipConfig \/ StartConfig \/ CopyConfig \/ OwnConfig
    \/ SkipBackup \/ StartDump \/ Dump \/ Rename \/ Program \/ Verify \/ Mark
    \/ Burn

Next ==
    \/ Step \/ Fault
    \/ Boot \/ PowerOff \/ Install \/ Restore \/ RestoreMcu

\* Scripts run on, the board boots when it has power, and is switched off and on
\* again and again.
Spec ==
    /\ Init /\ [][Next]_vars
    /\ WF_vars(Step) /\ WF_vars(Boot) /\ SF_vars(PowerOff)

-----------------------------------------------------------------------------

TypeOK ==
    /\ os \in {"image", "arduino"}
    /\ script \in Installers \cup {"restore", "none"}
    /\ pc \in Steps \cup {"off", "idle"}
    /\ config \in {"none", "part", "root's", "whole"}
    /\ backup \in [Installers -> Contents \cup {"none"}]
    /\ tmp \in [Installers -> Contents \cup {"none", "cut"}]
    /\ saved \subseteq Contents /\ flash \in Contents /\ done \in BOOLEAN
    /\ faults \in 0 .. MAX_FAULTS /\ unsaved \in BOOLEAN

\* Wherever scripts fail or power goes, and in whatever order they are run, the
\* stock firmware is in the flash or in a backup that is whole; or it has no backup
\* yet and restore-stock.sh is writing its loader anew.  It can be lost in two
\* ways only, both of restore-stock.sh: a wipe of a backup that was not copied
\* (the board was not up, adb pull failed, or QStep's image had set it up), and
\* a burn that is cut off when nobody ever made a backup.
StockIsKept ==
    \/ unsaved
    \/ "stock" \in {flash} \cup saved \cup {backup[s] : s \in Installers}
    \/ pc = "burnt" /\ Bare

\* The first boot of QStep's image is completed, however often it has failed.
FirstBootEnds == [](os = "image" => <>(done \/ os = "arduino"))

\* qstep-firstboot:8: "Marks /var/lib/qstep/firstboot-done only when everything
\* succeeded".  After a power cut while the configuration was copied, the next
\* boot finds the directory and takes it for whole.
MarkMeansComplete == [][Mark => config = "whole" /\ flash = "qstep"]_vars
=============================================================================
