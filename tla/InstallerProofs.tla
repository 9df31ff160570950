------------------------- MODULE InstallerProofs -------------------------
(***************************************************************************)
(* The transaction of install.sh, for any number of installations one      *)
(* after another and any number of looks at the new service.               *)
(***************************************************************************)
EXTENDS Installer, TLAPS

(* Every step stores values of the declared kinds. *)
LEMMA TypeStep == TypeOK /\ CountInv /\ [Next]_vars => TypeOK'
<1> SUFFICES ASSUME TypeOK, CountInv, [Next]_vars PROVE TypeOK'
  OBVIOUS
<1> USE DEF TypeOK, Step, Ended, Untouched, machine, agents, copies, history
<1>0. /\ NoState \in States
      /\ [state EXCEPT !.bound = TRUE] \in States
      /\ [state EXCEPT !.pull = TRUE] \in States
      /\ [bound |-> TRUE, pull |-> FALSE] \in States
  BY DEF States, NoState
<1>1. CASE Begin
  <2>1. n' \in Versions
    BY <1>1, InstallAssumption DEF Begin, Versions
  <2>2. backup' \in [Files -> Contents \cup {None}]
    BY <1>1 DEF Begin
  <2>3. oldState' \in States /\ tries' \in 0..MaxTries
    BY <1>0, <1>1, InstallAssumption DEF Begin
  <2>4. before' \in [file : [Files -> Contents], state : States, enabled : BOOLEAN]
    BY <1>1 DEF Begin, Here
  <2> QED BY <1>1, <2>1, <2>2, <2>3, <2>4 DEF Begin
<1>2. CASE Download \/ Killed
  <2>1. pc' \in {"backup", "failed", "killed"}
    BY <1>2 DEF Download, Killed
  <2>2. cutShort' \in BOOLEAN
    BY <1>2 DEF Download, Killed
  <2>3. UNCHANGED << machine, agents, n, mode, tries, copies, before, saved,
                     overwritten >>
    BY <1>2 DEF Download, Killed
  <2> QED BY <2>1, <2>2, <2>3
<1>3. CASE BackUp
  <2>1. backup' \in [Files -> Contents \cup {None}]
    BY <1>3 DEF BackUp, CopyOf, Contents
  <2> QED BY <1>3, <2>1 DEF BackUp
<1>4. CASE StopOld \/ CheckPort
  <2>1. pc' \in {"port", "bin", "rollback"} /\ service' \in {service, "off"}
    BY <1>4 DEF StopOld, CheckPort
  <2>2. wasActive' \in BOOLEAN /\ wasEnabled' \in BOOLEAN
    BY <1>4 DEF StopOld, CheckPort
  <2>3. UNCHANGED << machine, runs, duplicate, n, mode, tries, backup, oldState,
                     history >>
    BY <1>4 DEF StopOld, CheckPort
  <2> QED BY <2>1, <2>2, <2>3
<1>5. ASSUME NEW f \in Files, NEW from, NEW to, Put(f, from, to),
             to \in {"configure", "unit", "start"}
      PROVE  TypeOK'
  <2>1. file' \in [Files -> Contents]
    BY <1>5 DEF Put, Contents
  <2> QED BY <1>5, <2>1 DEF Put
<1>6. CASE InstallBinary \/ WriteEnvironment \/ WriteUnit
  BY <1>5, <1>6 DEF InstallBinary, WriteEnvironment, WriteUnit, Files
<1>7. CASE Configure
  <2>1. state' \in States
    BY <1>0, <1>7 DEF Configure
  <2> QED BY <1>7, <2>1 DEF Configure
<1>8. CASE StartNew
  <2>1. /\ pc' \in {"poll", "rollback"}
        /\ service' \in {service, "starting"}
        /\ enabled' \in BOOLEAN
    BY <1>8 DEF StartNew
  <2> QED BY <1>8, <2>1 DEF StartNew
<1>9. CASE Poll
  <2>1. tries' \in 0..MaxTries
    BY <1>9, InstallAssumption DEF Poll, CountInv
  <2>2. pc' \in {"poll", "duplicates", "rollback"}
    BY <1>9 DEF Poll
  <2> QED BY <1>9, <2>1, <2>2 DEF Poll
<1>10. CASE CleanupDuplicates
  BY <1>10 DEF CleanupDuplicates
<1>11. CASE Firewall
  <2>1. oldState' \in States
    BY <1>0, <1>11 DEF Firewall
  <2>2. pc' \in {"committed", "rollback"}
    BY <1>11 DEF Firewall
  <2>3. cutShort' \in BOOLEAN
    BY <1>11 DEF Firewall
  <2> QED BY <1>11, <2>1, <2>2, <2>3 DEF Firewall
<1>12. CASE RestoreFiles
  <2>1. \A f \in Files : Restorable(f) => Restored(f) \in Contents
    BY DEF Restorable, Restored, Contents
  <2>2. file' \in [Files -> Contents]
    BY <1>12, <2>1 DEF RestoreFiles
  <2>3. pc' \in {"erase", "stuck"} /\ cutShort' \in BOOLEAN
    BY <1>12 DEF RestoreFiles
  <2> QED BY <1>12, <2>2, <2>3 DEF RestoreFiles
<1>13. CASE EraseState \/ ReviveOld
  <2>1. CASE EraseState
    BY <1>0, <2>1 DEF EraseState
  <2>2. CASE ReviveOld
    BY <1>0, <2>2 DEF ReviveOld
  <2> QED BY <1>13, <2>1, <2>2
<1>14. CASE CopyStateBack
  <2>1. pc' \in {"revive", "stuck"} /\ cutShort' \in BOOLEAN /\ state' \in States
    BY <1>14 DEF CopyStateBack
  <2> QED BY <1>14, <2>1 DEF CopyStateBack
<1>15. CASE ServiceStarts \/ ServiceDies \/ Reboot
  BY <1>15 DEF ServiceStarts, ServiceDies, Reboot
<1>16. CASE ServiceEnrols \/ DuplicateSaves
  <2>1. state' \in States
    BY <1>0, <1>16 DEF ServiceEnrols, DuplicateSaves
  <2>2. saved' \in BOOLEAN /\ overwritten' \in BOOLEAN
    BY <1>16 DEF ServiceEnrols, DuplicateSaves
  <2>3. runs' \in {"enrol", "out"} \cup {runs} /\ service' \in {service, "pause"}
    BY <1>16 DEF ServiceEnrols, DuplicateSaves
  <2> QED BY <1>16, <2>1, <2>2, <2>3 DEF ServiceEnrols, DuplicateSaves
<1>17. CASE UNCHANGED vars
  BY <1>17 DEF vars
<1> QED BY <1>1, <1>2, <1>3, <1>4, <1>6, <1>7, <1>8, <1>9, <1>10, <1>11, <1>12,
           <1>13, <1>14, <1>15, <1>16, <1>17 DEF Next, Install

(* The number of the installation, and the looks at the new service.       *)
LEMMA CountStep == InstallInv /\ [Next]_vars => CountInv'
<1> SUFFICES ASSUME TypeOK, CountInv, [Next]_vars
             PROVE  CountInv'
  BY DEF InstallInv
<1> USE InstallAssumption DEF TypeOK, CountInv, Step, Put, Versions, Ended,
           Untouched, Unchanged, machine, agents, copies, history
<1>1. CASE Begin
  BY <1>1 DEF Begin
<1>2. CASE Download \/ Killed
  BY <1>2 DEF Download, Killed
<1>3. CASE BackUp
  BY <1>3 DEF BackUp
<1>4. CASE StopOld
  BY <1>4 DEF StopOld
<1>5. CASE CheckPort
  BY <1>5 DEF CheckPort
<1>6. CASE InstallBinary \/ WriteEnvironment \/ WriteUnit
  BY <1>6 DEF InstallBinary, WriteEnvironment, WriteUnit
<1>7. CASE Configure
  BY <1>7 DEF Configure
<1>8. CASE StartNew
  BY <1>8 DEF StartNew
<1>9. CASE Poll \/ CleanupDuplicates
  BY <1>9 DEF Poll, CleanupDuplicates
<1>10. CASE Firewall
  BY <1>10 DEF Firewall
<1>11. CASE RestoreFiles
  BY <1>11 DEF RestoreFiles
<1>12. CASE EraseState
  BY <1>12 DEF EraseState
<1>13. CASE CopyStateBack
  BY <1>13 DEF CopyStateBack
<1>14. CASE ReviveOld
  BY <1>14 DEF ReviveOld
<1>15. CASE ServiceStarts \/ ServiceDies \/ Reboot
  BY <1>15 DEF ServiceStarts, ServiceDies, Reboot
<1>16. CASE ServiceEnrols \/ DuplicateSaves
  BY <1>16 DEF ServiceEnrols, DuplicateSaves
<1>17. CASE UNCHANGED vars
  BY <1>17 DEF vars
<1> QED BY <1>1, <1>2, <1>3, <1>4, <1>5, <1>6, <1>7, <1>8, <1>9, <1>10, <1>11,
          <1>12, <1>13, <1>14, <1>15, <1>16, <1>17
        DEF Next, Install

(* The files are changed one by one and put back from their copies.        *)
LEMMA FileStep == InstallInv /\ [Next]_vars => FileInv'
<1> SUFFICES ASSUME TypeOK, CountInv, BackupInv, FileInv, [Next]_vars
             PROVE  FileInv'
  BY DEF InstallInv
<1> USE DEF TypeOK, CountInv, BackupInv, FileInv, Step, Put, Files, Missing,
           Broken, None, Here, Ended, Untouched, Unchanged, BackedUp, Written,
           Restoring, machine, agents, copies, history
<1>1. CASE Begin
  BY <1>1 DEF Begin
<1>2. CASE Download \/ Killed
  BY <1>2 DEF Download, Killed
<1>3. CASE BackUp
  BY <1>3 DEF BackUp
<1>4. CASE StopOld
  BY <1>4 DEF StopOld
<1>5. CASE CheckPort
  BY <1>5 DEF CheckPort
<1>6. CASE InstallBinary \/ WriteEnvironment \/ WriteUnit
  BY <1>6 DEF InstallBinary, WriteEnvironment, WriteUnit
<1>7. CASE Configure
  BY <1>7 DEF Configure
<1>8. CASE StartNew
  BY <1>8 DEF StartNew
<1>9. CASE Poll \/ CleanupDuplicates
  BY <1>9 DEF Poll, CleanupDuplicates
<1>10. CASE Firewall
  BY <1>10 DEF Firewall
<1>11. CASE RestoreFiles
  <2>1. CASE pc' = "stuck"
    BY <1>11, <2>1 DEF RestoreFiles
  <2>2. CASE pc' = "erase"
    <3>1. \A f \in Files : backup[f] # Missing /\ file'[f] = Restored(f)
      BY <1>11, <2>2 DEF RestoreFiles, Restorable
    <3>2. UNCHANGED << before, cutShort >> /\ pc = "rollback"
      BY <1>11, <2>2 DEF RestoreFiles
    <3>3. \A f \in Files :
             IF before.file[f] = Missing THEN backup[f] = None
             ELSE \/ backup[f] = before.file[f]
                  \/ cutShort /\ backup[f] \in {Missing, Broken}
      BY <3>2
    <3>4. \A f \in Files : before.file[f] \in Contents
      OBVIOUS
    <3>5. \A f \in Files : \/ Restored(f) = before.file[f]
                           \/ cutShort /\ Restored(f) = Broken
      BY <3>1, <3>3, <3>4 DEF Restored, Contents, Versions
    <3> QED BY <2>2, <3>1, <3>2, <3>5
  <2> QED BY <1>11, <2>1, <2>2 DEF RestoreFiles
<1>12. CASE EraseState
  BY <1>12 DEF EraseState
<1>13. CASE CopyStateBack
  BY <1>13 DEF CopyStateBack
<1>14. CASE ReviveOld
  BY <1>14 DEF ReviveOld
<1>15. CASE ServiceStarts \/ ServiceDies \/ Reboot
  BY <1>15 DEF ServiceStarts, ServiceDies, Reboot
<1>16. CASE ServiceEnrols \/ DuplicateSaves
  BY <1>16 DEF ServiceEnrols, DuplicateSaves
<1>17. CASE UNCHANGED vars
  BY <1>17 DEF vars
<1> QED BY <1>1, <1>2, <1>3, <1>4, <1>5, <1>6, <1>7, <1>8, <1>9, <1>10, <1>11,
          <1>12, <1>13, <1>14, <1>15, <1>16, <1>17
        DEF Next, Install

(* Nothing changes a file between the start and the copies, nor a copy.    *)
LEMMA BackupStep == InstallInv /\ [Next]_vars => BackupInv'
<1> SUFFICES ASSUME FileInv, BackupInv, [Next]_vars
             PROVE  BackupInv'
  BY DEF InstallInv
<1> USE DEF FileInv, BackupInv, Step, Put, Files, Missing, Broken, None,
           Ended, Untouched, Unchanged, BackedUp, Written, Restoring, machine,
           agents, copies, history
<1>1. CASE Begin
  BY <1>1 DEF Begin
<1>2. CASE Download \/ Killed
  BY <1>2 DEF Download, Killed
<1>3. CASE BackUp
  <2>1. pc = "backup" /\ UNCHANGED before
    BY <1>3 DEF BackUp
  <2>2. file = before.file
    BY <2>1
  <2>3. PICK Bad \in SUBSET {f \in Files : file[f] # Missing},
             rest \in {Missing, Broken} :
            backup' = CopyOf(Bad, rest) /\ cutShort' = (cutShort \/ Bad # {})
    BY <1>3 DEF BackUp
  <2>4. \A f \in Files : backup'[f] = IF file[f] = Missing THEN None
                                    ELSE IF f \in Bad THEN rest ELSE file[f]
    BY <2>3 DEF CopyOf
  <2>5. Bad # {} => cutShort'
    BY <2>3
  <2> QED BY <2>1, <2>2, <2>4, <2>5
<1>4. CASE StopOld
  BY <1>4 DEF StopOld
<1>5. CASE CheckPort
  BY <1>5 DEF CheckPort
<1>6. CASE InstallBinary \/ WriteEnvironment \/ WriteUnit
  BY <1>6 DEF InstallBinary, WriteEnvironment, WriteUnit
<1>7. CASE Configure
  BY <1>7 DEF Configure
<1>8. CASE StartNew
  BY <1>8 DEF StartNew
<1>9. CASE Poll \/ CleanupDuplicates
  BY <1>9 DEF Poll, CleanupDuplicates
<1>10. CASE Firewall
  BY <1>10 DEF Firewall
<1>11. CASE RestoreFiles
  BY <1>11 DEF RestoreFiles
<1>12. CASE EraseState
  BY <1>12 DEF EraseState
<1>13. CASE CopyStateBack
  BY <1>13 DEF CopyStateBack
<1>14. CASE ReviveOld
  BY <1>14 DEF ReviveOld
<1>15. CASE ServiceStarts \/ ServiceDies \/ Reboot
  BY <1>15 DEF ServiceStarts, ServiceDies, Reboot
<1>16. CASE ServiceEnrols \/ DuplicateSaves
  BY <1>16 DEF ServiceEnrols, DuplicateSaves
<1>17. CASE UNCHANGED vars
  BY <1>17 DEF vars
<1> QED BY <1>1, <1>2, <1>3, <1>4, <1>5, <1>6, <1>7, <1>8, <1>9, <1>10, <1>11,
          <1>12, <1>13, <1>14, <1>15, <1>16, <1>17
        DEF Next, Install

(* The unit is enabled by the last step of the changes only.               *)
LEMMA EnabledStep == InstallInv /\ [Next]_vars => EnabledInv'
<1> SUFFICES ASSUME EnabledInv, [Next]_vars
             PROVE  EnabledInv'
  BY DEF InstallInv
<1> USE DEF EnabledInv, Step, Put, Here, Ended, Untouched, Unchanged,
           BackedUp, Written, Restoring, machine, agents, copies, history
<1>1. CASE Begin
  BY <1>1 DEF Begin
<1>2. CASE Download \/ Killed
  BY <1>2 DEF Download, Killed
<1>3. CASE BackUp
  BY <1>3 DEF BackUp
<1>4. CASE StopOld
  BY <1>4 DEF StopOld
<1>5. CASE CheckPort
  BY <1>5 DEF CheckPort
<1>6. CASE InstallBinary \/ WriteEnvironment \/ WriteUnit
  BY <1>6 DEF InstallBinary, WriteEnvironment, WriteUnit
<1>7. CASE Configure
  BY <1>7 DEF Configure
<1>8. CASE StartNew
  BY <1>8 DEF StartNew
<1>9. CASE Poll \/ CleanupDuplicates
  BY <1>9 DEF Poll, CleanupDuplicates
<1>10. CASE Firewall
  BY <1>10 DEF Firewall
<1>11. CASE RestoreFiles
  BY <1>11 DEF RestoreFiles
<1>12. CASE EraseState
  BY <1>12 DEF EraseState
<1>13. CASE CopyStateBack
  BY <1>13 DEF CopyStateBack
<1>14. CASE ReviveOld
  BY <1>14 DEF ReviveOld
<1>15. CASE ServiceStarts \/ ServiceDies \/ Reboot
  BY <1>15 DEF ServiceStarts, ServiceDies, Reboot
<1>16. CASE ServiceEnrols \/ DuplicateSaves
  BY <1>16 DEF ServiceEnrols, DuplicateSaves
<1>17. CASE UNCHANGED vars
  BY <1>17 DEF vars
<1> QED BY <1>1, <1>2, <1>3, <1>4, <1>5, <1>6, <1>7, <1>8, <1>9, <1>10, <1>11,
          <1>12, <1>13, <1>14, <1>15, <1>16, <1>17
        DEF Next, Install

(* The state is erased when a copy of it is at hand, or it is a newer one. *)
LEMMA StateStep == InstallInv /\ [Next]_vars => StateInv'
<1> SUFFICES ASSUME TypeOK, BindingInv, StateInv, [Next]_vars
             PROVE  StateInv'
  BY DEF InstallInv
<1> USE DEF BindingInv, StateInv, Step, Put, Here, NoState, Ended, Untouched,
           Unchanged, BackedUp, Written, Restoring, machine, agents, copies,
           history
<1>1. CASE Begin
  BY <1>1 DEF Begin
<1>2. CASE Download \/ Killed
  BY <1>2 DEF Download, Killed
<1>3. CASE BackUp
  BY <1>3 DEF BackUp
<1>4. CASE StopOld
  BY <1>4 DEF StopOld
<1>5. CASE CheckPort
  BY <1>5 DEF CheckPort
<1>6. CASE InstallBinary \/ WriteEnvironment \/ WriteUnit
  BY <1>6 DEF InstallBinary, WriteEnvironment, WriteUnit
<1>7. CASE Configure
  BY <1>7 DEF Configure
<1>8. CASE StartNew
  BY <1>8 DEF StartNew
<1>9. CASE Poll \/ CleanupDuplicates
  BY <1>9 DEF Poll, CleanupDuplicates
<1>10. CASE Firewall
  BY <1>10 DEF Firewall
<1>11. CASE RestoreFiles
  BY <1>11 DEF RestoreFiles
<1>12. CASE EraseState
  BY <1>12 DEF EraseState
<1>13. CASE CopyStateBack
  BY <1>13 DEF CopyStateBack
<1>14. CASE ReviveOld
  BY <1>14 DEF ReviveOld
<1>15. CASE ServiceStarts \/ ServiceDies \/ Reboot
  BY <1>15 DEF ServiceStarts, ServiceDies, Reboot
<1>16. CASE ServiceEnrols \/ DuplicateSaves
  <2>1. /\ UNCHANGED << before, pc, oldState >>
        /\ saved' \/ UNCHANGED << state, saved >>
    BY <1>16 DEF ServiceEnrols, DuplicateSaves
  <2>2. state' = state \/ state'.bound
    BY <1>16 DEF ServiceEnrols, DuplicateSaves, TypeOK, States
  <2> QED BY <2>1, <2>2
<1>17. CASE UNCHANGED vars
  BY <1>17 DEF vars
<1> QED BY <1>1, <1>2, <1>3, <1>4, <1>5, <1>6, <1>7, <1>8, <1>9, <1>10, <1>11,
          <1>12, <1>13, <1>14, <1>15, <1>16, <1>17
        DEF Next, Install

(* Agents and configure-pull only add to a state; the trap erases it after *)
(* the backup.                                                             *)
LEMMA BindingStep == InstallInv /\ [Next]_vars => BindingInv'
<1> SUFFICES ASSUME TypeOK, StateInv, BindingInv, [Next]_vars
             PROVE  BindingInv'
  BY DEF InstallInv
<1> USE DEF TypeOK, StateInv, BindingInv, Step, Put, States, Here, NoState,
           Ended, Untouched, Unchanged, BackedUp, Written, Restoring, machine,
           agents, copies, history
<1>1. CASE Begin
  BY <1>1 DEF Begin
<1>2. CASE Download \/ Killed
  BY <1>2 DEF Download, Killed
<1>3. CASE BackUp
  BY <1>3 DEF BackUp
<1>4. CASE StopOld
  BY <1>4 DEF StopOld
<1>5. CASE CheckPort
  BY <1>5 DEF CheckPort
<1>6. CASE InstallBinary \/ WriteEnvironment \/ WriteUnit
  BY <1>6 DEF InstallBinary, WriteEnvironment, WriteUnit
<1>7. CASE Configure
  BY <1>7 DEF Configure
<1>8. CASE StartNew
  BY <1>8 DEF StartNew
<1>9. CASE Poll \/ CleanupDuplicates
  BY <1>9 DEF Poll, CleanupDuplicates
<1>10. CASE Firewall
  BY <1>10 DEF Firewall
<1>11. CASE RestoreFiles
  BY <1>11 DEF RestoreFiles
<1>12. CASE EraseState
  BY <1>12 DEF EraseState
<1>13. CASE CopyStateBack
  BY <1>13 DEF CopyStateBack
<1>14. CASE ReviveOld
  BY <1>14 DEF ReviveOld
<1>15. CASE ServiceStarts \/ ServiceDies \/ Reboot
  BY <1>15 DEF ServiceStarts, ServiceDies, Reboot
<1>16. CASE ServiceEnrols \/ DuplicateSaves
  BY <1>16 DEF ServiceEnrols, DuplicateSaves
<1>17. CASE UNCHANGED vars
  BY <1>17 DEF vars
<1> QED BY <1>1, <1>2, <1>3, <1>4, <1>5, <1>6, <1>7, <1>8, <1>9, <1>10, <1>11,
          <1>12, <1>13, <1>14, <1>15, <1>16, <1>17
        DEF Next, Install

(* The service is off from its stop until all the new files are in place,  *)
(* and from the first file put back until the last.                        *)
LEMMA ServiceStep == InstallInv /\ [Next]_vars => ServiceInv'
<1> SUFFICES ASSUME TypeOK, FileInv, ServiceInv, [Next]_vars
             PROVE  ServiceInv'
  BY DEF InstallInv
<1> USE DEF TypeOK, FileInv, ServiceInv, Step, Put, Files, Missing, Broken,
           None, Here, Uniform, Ended, Untouched, Unchanged, BackedUp,
           Written, Restoring, machine, agents, copies, history
<1>1. CASE Begin
  BY <1>1 DEF Begin
<1>2. CASE Download \/ Killed
  BY <1>2 DEF Download, Killed
<1>3. CASE BackUp
  BY <1>3 DEF BackUp
<1>4. CASE StopOld
  BY <1>4 DEF StopOld
<1>5. CASE CheckPort
  BY <1>5 DEF CheckPort
<1>6. CASE InstallBinary \/ WriteEnvironment \/ WriteUnit
  BY <1>6 DEF InstallBinary, WriteEnvironment, WriteUnit
<1>7. CASE Configure
  BY <1>7 DEF Configure
<1>8. CASE StartNew
  BY <1>8 DEF StartNew
<1>9. CASE Poll \/ CleanupDuplicates
  BY <1>9 DEF Poll, CleanupDuplicates
<1>10. CASE Firewall
  BY <1>10 DEF Firewall
<1>11. CASE RestoreFiles
  BY <1>11 DEF RestoreFiles
<1>12. CASE EraseState
  BY <1>12 DEF EraseState
<1>13. CASE CopyStateBack
  BY <1>13 DEF CopyStateBack
<1>14. CASE ReviveOld
  BY <1>14 DEF ReviveOld
<1>15. CASE ServiceStarts \/ ServiceDies \/ Reboot
  BY <1>15 DEF ServiceStarts, ServiceDies, Reboot
<1>16. CASE ServiceEnrols \/ DuplicateSaves
  BY <1>16 DEF ServiceEnrols, DuplicateSaves
<1>17. CASE UNCHANGED vars
  BY <1>17 DEF vars
<1> QED BY <1>1, <1>2, <1>3, <1>4, <1>5, <1>6, <1>7, <1>8, <1>9, <1>10, <1>11,
          <1>12, <1>13, <1>14, <1>15, <1>16, <1>17
        DEF Next, Install

(* Only a duplicate takes the incoming channel out of the state.           *)
LEMMA IncomingStep == InstallInv /\ [Next]_vars => IncomingInv'
<1> SUFFICES ASSUME TypeOK, CountInv, IncomingInv, [Next]_vars
             PROVE  IncomingInv'
  BY DEF InstallInv
<1> USE DEF TypeOK, CountInv, IncomingInv, Step, Put, States, Pull,
           LooksStarted, Ended, Untouched, Unchanged, BackedUp, Written,
           Restoring, machine, agents, copies, history
<1>1. CASE Begin
  BY <1>1 DEF Begin
<1>2. CASE Download \/ Killed
  BY <1>2 DEF Download, Killed
<1>3. CASE BackUp
  BY <1>3 DEF BackUp
<1>4. CASE StopOld
  BY <1>4 DEF StopOld
<1>5. CASE CheckPort
  BY <1>5 DEF CheckPort
<1>6. CASE InstallBinary \/ WriteEnvironment \/ WriteUnit
  BY <1>6 DEF InstallBinary, WriteEnvironment, WriteUnit
<1>7. CASE Configure
  BY <1>7 DEF Configure
<1>8. CASE StartNew
  BY <1>8 DEF StartNew
<1>9. CASE Poll \/ CleanupDuplicates
  BY <1>9 DEF Poll, CleanupDuplicates
<1>10. CASE Firewall
  BY <1>10 DEF Firewall
<1>11. CASE RestoreFiles
  BY <1>11 DEF RestoreFiles
<1>12. CASE EraseState
  BY <1>12 DEF EraseState
<1>13. CASE CopyStateBack
  BY <1>13 DEF CopyStateBack
<1>14. CASE ReviveOld
  BY <1>14 DEF ReviveOld
<1>15. CASE ServiceStarts \/ ServiceDies \/ Reboot
  BY <1>15 DEF ServiceStarts, ServiceDies, Reboot
<1>16. CASE ServiceEnrols \/ DuplicateSaves
  BY <1>16 DEF ServiceEnrols, DuplicateSaves
<1>17. CASE UNCHANGED vars
  BY <1>17 DEF vars
<1> QED BY <1>1, <1>2, <1>3, <1>4, <1>5, <1>6, <1>7, <1>8, <1>9, <1>10, <1>11,
          <1>12, <1>13, <1>14, <1>15, <1>16, <1>17
        DEF Next, Install

LEMMA InitInstall == Init => InstallInv
<1> SUFFICES ASSUME Init PROVE InstallInv
  OBVIOUS
<1> USE DEF Init, Ended
<1>1. TypeOK
  <2>1. file \in [Files -> Contents] /\ backup \in [Files -> Contents \cup {None}]
    BY InstallAssumption DEF Contents, Versions
  <2>2. NoState \in States /\ n \in Versions /\ tries \in 0..MaxTries
    BY InstallAssumption DEF States, NoState, Versions
  <2>3. before \in [file : [Files -> Contents], state : States, enabled : BOOLEAN]
    BY <2>1 DEF Here
  <2> QED BY <2>1, <2>2, <2>3 DEF TypeOK
<1>2. Uniform(file) \/ cutShort
  BY DEF Uniform, Files
<1>3. CountInv /\ FileInv /\ BackupInv /\ EnabledInv /\ StateInv /\ IncomingInv
  BY DEF CountInv, FileInv, BackupInv, EnabledInv, StateInv, IncomingInv,
         Untouched, Unchanged, BackedUp, Written, Restoring
<1>4. BindingInv /\ ServiceInv
  BY <1>2 DEF BindingInv, ServiceInv, Here, Untouched, Unchanged, BackedUp,
              Written, Restoring
<1> QED BY <1>1, <1>3, <1>4 DEF InstallInv

LEMMA NextInstall == InstallInv /\ [Next]_vars => InstallInv'
<1> SUFFICES ASSUME InstallInv, [Next]_vars PROVE InstallInv'
  OBVIOUS
<1>1. TypeOK'
  BY TypeStep DEF InstallInv
<1> QED BY <1>1, CountStep, FileStep, BackupStep, EnabledStep, StateStep,
           BindingStep, ServiceStep, IncomingStep DEF InstallInv

(* At every step of any number of installations, their rollbacks and       *)
(* deaths, beside the service and a duplicate, the copies, files and state *)
(* are what the next step of the script relies on (install.sh:119-292).    *)
THEOREM InstallInvariant == Spec => []InstallInv
  BY InitInstall, NextInstall, PTL DEF Spec

(* The variables hold values of their kinds; no look is one too many       *)
(* (install.sh:257-275).                                                   *)
THEOREM InstallTypes == Spec => []TypeOK
<1>1. InstallInv => TypeOK
  BY DEF InstallInv
<1> QED BY <1>1, InstallInvariant, PTL

(* A rollback that runs to its end brings back the files it had copies of, *)
(* the enabled unit and the state, whichever step failed, for any number   *)
(* of installations before this one (install.sh:130-155, 165-174).         *)
THEOREM RollbackRestoresTheorem == Spec => []RollbackRestores
<1>1. InstallInv => RollbackRestores
  BY DEF InstallInv, RollbackRestores, FileInv, EnabledInv, StateInv, Restoring, Unchanged
<1> QED BY <1>1, InstallInvariant, PTL

(* A binding found at the start of an installation is always in the state  *)
(* or in its copy (install.sh:139-140, 170, 194).                          *)
THEOREM BindingKeptTheorem == Spec => []BindingKept
<1>1. InstallInv => BindingKept
  BY DEF InstallInv, BindingKept, BindingInv
<1> QED BY <1>1, InstallInvariant, PTL

(* The service runs on the files of one installation, unless one was cut   *)
(* short (install.sh:135, 173, 254-255).                                   *)
THEOREM NothingRunsMixedTheorem == Spec => []NothingRunsMixed
<1>1. InstallInv => NothingRunsMixed
  <2> SUFFICES ASSUME InstallInv, service = "running", ~cutShort
               PROVE  Uniform(file)
    BY DEF NothingRunsMixed, Uniform
  <2> USE DEF InstallInv, ServiceInv
  <2>1. CASE pc \in Ended \cup Unchanged \cup {"rollback"}
    BY <2>1
  <2>2. CASE pc \in {"configure", "env", "unit"} \cup Restoring
    BY <2>2
  <2>3. CASE pc \in Written
    BY <2>3 DEF FileInv, Uniform
  <2> QED BY <2>1, <2>2, <2>3 DEF TypeOK, Ended, Untouched, Unchanged, Written, Restoring
<1> QED BY <1>1, InstallInvariant, PTL

(* A committed installation of incoming mode runs the incoming service     *)
(* from then on, unless a duplicate in outgoing mode wrote over the state  *)
(* (install.sh:191-203, 257-275; cmd_run.go:68).                           *)
THEOREM IncomingServesTheorem == Spec => []IncomingServes
<1>1. InstallInv => IncomingServes
  BY DEF InstallInv, IncomingServes, IncomingInv
<1> QED BY <1>1, InstallInvariant, PTL
==========================================================================
