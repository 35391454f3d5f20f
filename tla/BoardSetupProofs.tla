-------------------------- MODULE BoardSetupProofs ---------------------------
(***************************************************************************)
(* The stock firmware survives any number of faults and any order of the    *)
(* setup scripts.                                                          *)
(***************************************************************************)
EXTENDS BoardSetup, TLAPS

\* There is no backup yet and the flash has not been touched, or is being restored,
\* or one of the backups is the stock firmware.
Covered ==
    \/ unsaved \/ "stock" \in saved
    \/ \E s \in Installers : backup[s] = "stock"
    \/ Bare /\ (flash = "stock" \/ pc = "burnt")

\* What a script has done when it is at a step.
AtSteps ==
    /\ pc \in {"backup", "dump", "rename", "program", "verify"}
           => script \in Installers
    /\ pc \in {"off", "idle"} => script = "none"
    /\ pc \in {"dump", "rename"} => backup[script] = "none"
    /\ pc = "rename" => tmp[script] = flash
    /\ pc \in {"program", "verify"} => backup[script] # "none"
    /\ pc \in {"config", "copy", "chown"} => script \in Installers

\* What a script has done when it is about to set the mark, or would have, had
\* nothing failed.
MarkInv ==
    /\ pc \in {"burn", "burnt"} => script = "restore"
    /\ pc = "mark" => script = "firstboot" /\ flash = "qstep"
    /\ pc = "mark" => backup["firstboot"] # "none"
    /\ faults = 0 =>
           /\ config = "part" <=> pc = "copy"
           /\ config = "root's" <=> pc = "chown"
           /\ script = "firstboot" /\ pc \notin {"config", "copy", "chown"}
                  => config = "whole"

IInv == TypeOK /\ Covered /\ AtSteps /\ MarkInv

-----------------------------------------------------------------------------

LEMMA TypeStep == IInv /\ [Next]_vars => TypeOK'
<1> SUFFICES ASSUME IInv, [Next]_vars PROVE TypeOK'
  OBVIOUS
<1> USE SetupAssumption DEF IInv, TypeOK, Installers, Contents, Steps
<1>1. CASE SkipConfig
  BY <1>1 DEF SkipConfig, At, files
<1>2. CASE StartConfig
  BY <1>2 DEF StartConfig, At
<1>3. CASE CopyConfig
  BY <1>3 DEF CopyConfig, At
<1>4. CASE OwnConfig
  BY <1>4 DEF OwnConfig, At, Ends
<1>5. CASE SkipBackup
  BY <1>5 DEF SkipBackup, At, files
<1>6. CASE StartDump
  BY <1>6 DEF StartDump, At
<1>7. CASE Dump
  BY <1>7 DEF Dump, At
<1>8. CASE Rename
  BY <1>8 DEF Rename, At, AtSteps
<1>9. CASE Program
  BY <1>9 DEF Program, At, files
<1>10. CASE Verify
  BY <1>10 DEF Verify, At, Ends, files
<1>11. CASE Mark
  BY <1>11 DEF Mark, Ends
<1>12. CASE Burn
  BY <1>12 DEF Burn, At, Ends, files
<1>13. CASE Fault
  BY <1>13 DEF Fault, files
<1>14. CASE Boot
  BY <1>14 DEF Boot, Ends, files
<1>15. CASE PowerOff
  BY <1>15 DEF PowerOff, files
<1>16. CASE Install
  BY <1>16 DEF Install, files
<1>17. CASE Restore
  BY <1>17 DEF Restore
<1>18. CASE RestoreMcu
  BY <1>18 DEF RestoreMcu, files
<1>19. CASE UNCHANGED vars
  BY <1>19 DEF vars, files
<1>20. QED
  BY <1>1, <1>2, <1>3, <1>4, <1>5, <1>6, <1>7, <1>8, <1>9, <1>10, <1>11, <1>12,
     <1>13, <1>14, <1>15, <1>16, <1>17, <1>18, <1>19 DEF Next, Step

\* A backup is made of what the flash held before it was programmed, so the
\* first one is of the stock firmware.
LEMMA CoveredStep == IInv /\ [Next]_vars => Covered'
<1> SUFFICES ASSUME IInv, [Next]_vars PROVE Covered'
  OBVIOUS
<1>0. TypeOK /\ Covered /\ AtSteps
  BY DEF IInv
<1>1. ASSUME pc # "burnt", UNCHANGED <<backup, saved, flash, unsaved>>
      PROVE  Covered'
  BY <1>0, <1>1 DEF Covered, Bare
<1>2. CASE Rename
  <2>1. /\ script \in Installers /\ tmp[script] = flash /\ backup[script] = "none"
        /\ backup' = [backup EXCEPT ![script] = tmp[script]]
        /\ pc = "rename" /\ UNCHANGED <<saved, flash, unsaved>>
    BY <1>0, <1>2 DEF Rename, At, AtSteps
  <2>2. backup'[script] = flash /\ \A s \in Installers \ {script} : backup'[s] = backup[s]
    BY <1>0, <2>1 DEF TypeOK
  <2>3. CASE flash = "stock"
    BY <2>1, <2>2, <2>3 DEF Covered
  <2>4. ASSUME NEW s \in Installers, backup[s] = "stock"
        PROVE  Covered'
    BY <2>1, <2>2, <2>4 DEF Covered
  <2>5. QED
    BY <1>0, <2>1, <2>3, <2>4 DEF Covered
<1>3. CASE Program
  BY <1>0, <1>3 DEF Program, At, files, AtSteps, Covered, Bare
<1>4. CASE Verify
  BY <1>0, <1>4 DEF Verify, At, files, AtSteps, Covered, Bare
<1>5. CASE Burn
  BY <1>0, <1>5 DEF Burn, At, files, Covered, Bare
<1>6. CASE Restore
  <2>1. (\A s \in Installers : backup'[s] = "none") /\ pc # "burnt"
    BY <1>6 DEF Restore
  <2>2. flash' = flash
    BY <1>6 DEF Restore
  <2>3. CASE unsaved'
    BY <2>3 DEF Covered
  <2>4. CASE ~unsaved'
    <3>1. /\ ~unsaved /\ backup["firstboot"] = "none"
          /\ \/ saved' = saved \cup ({backup["install"]} \ {"none"})
             \/ saved' = saved /\ backup["install"] = "none"
      BY <1>6, <2>4 DEF Restore, Installers
    <3>2. QED
      BY <1>0, <2>1, <2>2, <3>1 DEF Covered, Bare, Installers
  <2>5. QED
    BY <2>3, <2>4
<1>7. CASE Fault
  <2>1. UNCHANGED <<backup, saved, flash>> /\ unsaved' = (unsaved \/ (pc = "burnt" /\ Bare))
    BY <1>7 DEF Fault, files
  <2>2. QED
    BY <1>0, <2>1 DEF Covered, Bare
<1>8. CASE UNCHANGED vars
  BY <1>0, <1>8 DEF vars, files, Covered, Bare
<1>9. QED
  BY <1>1, <1>2, <1>3, <1>4, <1>5, <1>6, <1>7, <1>8
     DEF Next, Step, SkipConfig, StartConfig, CopyConfig, OwnConfig, SkipBackup,
         StartDump, Dump, Mark, Boot, PowerOff, Install, RestoreMcu, At, files

LEMMA AtStepsStep == IInv /\ [Next]_vars => AtSteps'
<1> SUFFICES ASSUME IInv, [Next]_vars PROVE AtSteps'
  OBVIOUS
<1>0. TypeOK /\ AtSteps
  BY DEF IInv
<1> USE <1>0 DEF AtSteps
<1>1. CASE SkipConfig
  BY <1>1 DEF SkipConfig, At, files
<1>2. CASE StartConfig
  BY <1>2 DEF StartConfig, At
<1>3. CASE CopyConfig
  BY <1>3 DEF CopyConfig, At
<1>4. CASE OwnConfig
  BY <1>4 DEF OwnConfig, At, Ends
<1>5. CASE SkipBackup
  BY <1>5 DEF SkipBackup, At, files
<1>6. CASE StartDump
  BY <1>6 DEF StartDump, At
<1>7. CASE Dump
  BY <1>7 DEF Dump, At, TypeOK
<1>8. CASE Rename
  BY <1>8 DEF Rename, At, TypeOK, Contents
<1>9. CASE Program
  BY <1>9 DEF Program, At, files
<1>10. CASE Verify
  BY <1>10 DEF Verify, At, Ends, files
<1>11. CASE Mark
  BY <1>11 DEF Mark, Ends
<1>12. CASE Burn
  BY <1>12 DEF Burn, At, Ends, files
<1>13. CASE Fault
  BY <1>13 DEF Fault, files
<1>14. CASE Boot
  BY <1>14 DEF Boot, Ends, files, Installers
<1>15. CASE PowerOff
  BY <1>15 DEF PowerOff, files
<1>16. CASE Install
  BY <1>16 DEF Install, files, Installers
<1>17. CASE Restore
  BY <1>17 DEF Restore, Installers
<1>18. CASE RestoreMcu
  BY <1>18 DEF RestoreMcu, files
<1>19. CASE UNCHANGED vars
  BY <1>19 DEF vars, files
<1>20. QED
  BY <1>1, <1>2, <1>3, <1>4, <1>5, <1>6, <1>7, <1>8, <1>9, <1>10, <1>11, <1>12,
     <1>13, <1>14, <1>15, <1>16, <1>17, <1>18, <1>19 DEF Next, Step

LEMMA MarkStep == IInv /\ [Next]_vars => MarkInv'
<1> SUFFICES ASSUME IInv, [Next]_vars PROVE MarkInv'
  OBVIOUS
<1>0. TypeOK /\ AtSteps /\ MarkInv
  BY DEF IInv
<1> USE <1>0 DEF MarkInv, AtSteps, TypeOK
<1>1. CASE SkipConfig
  BY <1>1 DEF SkipConfig, At, files
<1>2. CASE StartConfig
  BY <1>2 DEF StartConfig, At
<1>3. CASE CopyConfig
  BY <1>3 DEF CopyConfig, At
<1>4. CASE OwnConfig
  BY <1>4 DEF OwnConfig, At, Ends
<1>5. CASE SkipBackup
  BY <1>5 DEF SkipBackup, At, files
<1>6. CASE StartDump
  BY <1>6 DEF StartDump, At
<1>7. CASE Dump
  BY <1>7 DEF Dump, At
<1>8. CASE Rename
  BY <1>8 DEF Rename, At, Contents
<1>9. CASE Program
  BY <1>9 DEF Program, At, files
<1>10. CASE Verify
  BY <1>10 DEF Verify, At, Ends, files
<1>11. CASE Mark
  BY <1>11 DEF Mark, Ends
<1>12. CASE Burn
  BY <1>12 DEF Burn, At, Ends, files
<1>13. CASE Fault
  BY <1>13 DEF Fault, files, Steps
<1>14. CASE Boot
  BY <1>14 DEF Boot, Ends, files, Installers
<1>15. CASE PowerOff
  BY <1>15 DEF PowerOff, files
<1>16. CASE Install
  BY <1>16 DEF Install, files
<1>17. CASE Restore
  BY <1>17 DEF Restore
<1>18. CASE RestoreMcu
  BY <1>18 DEF RestoreMcu, files
<1>19. CASE UNCHANGED vars
  BY <1>19 DEF vars, files
<1>20. QED
  BY <1>1, <1>2, <1>3, <1>4, <1>5, <1>6, <1>7, <1>8, <1>9, <1>10, <1>11, <1>12,
     <1>13, <1>14, <1>15, <1>16, <1>17, <1>18, <1>19 DEF Next, Step

LEMMA Invariance == Spec => []IInv
<1>1. Init => IInv
  <2> SUFFICES ASSUME Init PROVE IInv
    OBVIOUS
  <2>1. backup = [s \in Installers |-> "none"] /\ tmp = backup
    BY DEF Init
  <2>2. TypeOK
    <3>1. faults \in 0 .. MAX_FAULTS
      BY SetupAssumption DEF Init
    <3>2. /\ backup \in [Installers -> Contents \cup {"none"}]
          /\ tmp \in [Installers -> Contents \cup {"none", "cut"}]
      BY <2>1
    <3>3. /\ flash \in Contents /\ saved \subseteq Contents
          /\ pc \in Steps \cup {"off", "idle"}
      BY DEF Init, Contents
    <3>4. QED
      BY <3>1, <3>2, <3>3 DEF Init, TypeOK
  <2>3. Covered
    BY <2>1 DEF Init, Covered, Bare
  <2>4. AtSteps
    BY <2>1 DEF Init, AtSteps, Installers
  <2>5. MarkInv
    BY DEF Init, MarkInv
  <2>6. QED
    BY <2>2, <2>3, <2>4, <2>5 DEF IInv
<1>2. IInv /\ [Next]_vars => IInv'
  BY TypeStep, CoveredStep, AtStepsStep, MarkStep DEF IInv
<1>3. QED
  BY <1>1, <1>2, PTL DEF Spec

-----------------------------------------------------------------------------

\* The contents of flash, backups and files are of the known kinds; a backup is
\* never part of one.
THEOREM TypeCorrect == Spec => []TypeOK
BY Invariance, PTL DEF IInv

\* The stock firmware is never lost to a failing step or a power cut of
\* qstep-firstboot or install.sh, however many there are and in whatever order the
\* scripts run, and in restore-stock.sh only where it has no copy to go back to.
THEOREM StockIsKeptHolds == Spec => []StockIsKept
<1>1. IInv => StockIsKept
  BY DEF IInv, Covered, StockIsKept
<1>2. QED
  BY <1>1, Invariance, PTL

\* The steps of the first boot, in order.
Place ==
    [config |-> 1, copy |-> 2, chown |-> 3, backup |-> 4, dump |-> 5,
     rename |-> 6, program |-> 7, verify |-> 8, mark |-> 9]

\* The safety core of FirstBootEnds: whatever earlier runs left behind, each step
\* of qstep-firstboot that does not fail takes it further or sets the mark, and
\* nothing else runs meanwhile; so a run that meets no fault ends with the mark.
THEOREM FirstBootAdvances ==
    Spec => [][script = "firstboot" /\ faults' = faults
               => \/ Mark /\ done'
                  \/ script' = "firstboot" /\ Place[pc'] > Place[pc]]_vars
<1>1. IInv /\ [Next]_vars
          => [script = "firstboot" /\ faults' = faults
              => \/ Mark /\ done'
                 \/ script' = "firstboot" /\ Place[pc'] > Place[pc]]_vars
  <2> SUFFICES ASSUME IInv, Next, script = "firstboot", faults' = faults
               PROVE  \/ Mark /\ done'
                      \/ script' = "firstboot" /\ Place[pc'] > Place[pc]
    OBVIOUS
  <2>1. pc \notin {"burn", "burnt", "off", "idle"} /\ faults \in Nat
    BY DEF IInv, MarkInv, AtSteps, TypeOK
  <2>2. ~Fault /\ ~Burn
    BY <2>1 DEF Fault, Burn, At
  <2>3. ~(Boot \/ PowerOff \/ Install \/ Restore \/ RestoreMcu)
    BY <2>1 DEF Boot, PowerOff, Install, Restore, RestoreMcu
  <2>4. CASE Mark
    BY <2>4 DEF Mark
  <2>5. CASE Step /\ ~Mark
    BY <2>2, <2>5
    DEF Step, SkipConfig, StartConfig, CopyConfig, OwnConfig, SkipBackup,
        StartDump, Dump, Rename, Program, Verify, At, Place
  <2>6. QED
    BY <2>2, <2>3, <2>4, <2>5 DEF Next
<1>2. QED
  BY <1>1, Invariance, PTL DEF Spec

\* What of MarkMeansComplete does hold (qstep-firstboot:8): when the mark is set
\* QStep's firmware is verified and a backup is there, however often it was tried,
\* and without a fault the configuration is whole, too.
THEOREM MarkMeansFlashed ==
    Spec => [][Mark => /\ flash = "qstep" /\ backup["firstboot"] # "none"
                       /\ faults = 0 => config = "whole"]_vars
<1>1. IInv /\ [Next]_vars
          => [Mark => /\ flash = "qstep" /\ backup["firstboot"] # "none"
                      /\ faults = 0 => config = "whole"]_vars
  BY DEF IInv, MarkInv, Mark
<1>2. QED
  BY <1>1, Invariance, PTL DEF Spec
=============================================================================
