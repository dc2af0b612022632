---------------------- MODULE NodeRegistration_proofs ----------------------
(***************************************************************************)
(* The safety properties of NodeRegistration, for every set of node ids    *)
(* and any number of commands.                                             *)
(***************************************************************************)
EXTENDS NodeRegistration, TLAPS

LEMMA Numbers == None \notin NodeIds /\ MaxCommands \in Nat
BY NodeRegistrationAssumption

(* Where a command is tells what has already come off, unless it is stuck.   *)
ComesOff ==
  "service" \notin stuck =>
    /\ cpc \in {"rollbackIdentity", "rollbackRow", "leaveRow", "leaveIdentity"} =>
         unit = FALSE /\ active = FALSE
    /\ daemon # None => active = TRUE

(* After "left" nothing is on the machine but what is stuck, until the next  *)
(* command.                                                                  *)
HasLeft ==
  /\ cpc # "idle" => exit = "none"
  /\ exit = "left" =>
       /\ "service" \notin stuck => unit = FALSE /\ active = FALSE
       /\ "identity" \notin stuck => identity = None

(* While nobody loosens the file, where a command is also tells what has     *)
(* been put on.  A registration gets past its check only without an          *)
(* identity, hence without a unit unless that is stuck, and the file changes *)
(* hands before there is a unit again.                                       *)
PutOn ==
  "loosened" \notin troubles =>
    /\ loose = FALSE
    /\ "service" \notin stuck =>
         /\ unit = TRUE \/ active = TRUE => identity # None /\ owner = "brae"
         /\ daemon # None => daemon = identity
         /\ cpc \in {"user", "own"} => unit = FALSE /\ active = FALSE
    /\ cpc \in {"post", "save", "giveBack"} => identity = None
    /\ cpc \in {"save", "giveBack"} => held # None
    /\ cpc \in {"user", "own"} => identity # None
    /\ cpc \in {"install", "start", "verify"} => identity # None /\ owner = "brae"

(* With a reliable control plane and commands that run to their end, the row *)
(* follows the token from the reply to the file and back.                    *)
RowFollows ==
  troubles = {} =>
    /\ cpc \in {"idle", "post"} => held = None
    /\ cpc \in {"user", "own", "install", "start", "verify", "rollbackService",
                "rollbackIdentity", "leaveService", "leaveRow", "leaveIdentity"} =>
         held # None /\ held = identity
    /\ cpc = "rollbackRow" =>
         /\ held # None /\ identity \in {None, held}
         /\ "identity" \notin stuck => identity = None
    /\ cpc = "leaveIdentity" => rows[held] # "active"
    /\ RowsHaveSpeakers

(* A failed registration has put nothing on but what is stuck.               *)
FailedClean ==
  troubles = {} /\ exit \in {"refused", "rolled back"} =>
    cpc = "idle" /\ ("identity" \notin stuck => identity = None)

-----------------------------------------------------------------------------
(* The names the actions assign, so that the types need not be expanded.     *)
LEMMA Names ==
  /\ {"idle", "post", "save", "giveBack", "user", "own", "install", "start",
      "verify", "rollbackService", "rollbackIdentity", "rollbackRow",
      "leaveService", "leaveRow", "leaveIdentity"} \subseteq Points
  /\ {"none", "already registered", "refused", "rolled back", "connected",
      "not yet reporting", "not registered", "left", "killed"} \subseteq Exits
BY DEF Points, Exits

(* A command that is given is within the bound.                              *)
LEMMA Counted ==
  ASSUME commands \in 0..MaxCommands, commands < MaxCommands,
         commands' = commands + 1
  PROVE  commands' \in 0..MaxCommands
BY Numbers

(* Every step keeps the types. *)
LEMMA TypeStep == TypeOK /\ [Next]_vars => TypeOK'
<1> SUFFICES ASSUME TypeOK, [Next]_vars PROVE TypeOK'
  OBVIOUS
<1> USE Numbers, Names DEF TypeOK,
             Befalls, Troubles, Goes, Ends, Returns, loads, daemonLoads,
             UnregisterNode, StopAndRemove, RemoveIdentity, fileVars, serviceVars,
             serverVars
<1>1. CASE Register
  <2>1. commands' \in 0..MaxCommands
    BY <1>1, Counted DEF Register
  <2>2. cpc' \in Points /\ exit' \in Exits
    BY <1>1 DEF Register, Points, Exits
  <2> QED
    BY <1>1, <2>1, <2>2 DEF Register
<1>2. ASSUME NEW i \in NodeIds, RegisterNode(i) PROVE TypeOK'
  BY <1>2 DEF RegisterNode
<1>3. CASE RegisterNodeFails
  BY <1>3 DEF RegisterNodeFails
<1>4. CASE SaveIdentity
  BY <1>4 DEF SaveIdentity
<1>5. CASE SaveIdentityFails
  BY <1>5 DEF SaveIdentityFails
<1>6. CASE GiveBack
  BY <1>6 DEF GiveBack
<1>7. ASSUME NEW ok \in BOOLEAN, EnsureUser(ok) PROVE TypeOK'
  BY <1>7 DEF EnsureUser
<1>8. ASSUME NEW ok \in BOOLEAN, TakeOwnership(ok) PROVE TypeOK'
  BY <1>8 DEF TakeOwnership
<1>9. ASSUME NEW ok \in BOOLEAN, Install(ok) PROVE TypeOK'
  BY <1>9 DEF Install
<1>10. ASSUME NEW ok \in BOOLEAN, Start(ok) PROVE TypeOK'
  BY <1>10 DEF Start
<1>11. CASE Verified
  BY <1>11 DEF Verified
<1>12. CASE NotVerified
  BY <1>12 DEF NotVerified
<1>13. CASE RollbackService
  BY <1>13 DEF RollbackService
<1>14. CASE RollbackIdentity
  BY <1>14 DEF RollbackIdentity
<1>15. CASE RollbackRow
  BY <1>15 DEF RollbackRow
<1>16. CASE Unregister
  <2>1. commands' \in 0..MaxCommands
    BY <1>16, Counted DEF Unregister
  <2>2. cpc' \in Points /\ exit' \in Exits
    BY <1>16 DEF Unregister, Points, Exits
  <2> QED
    BY <1>16, <2>1, <2>2 DEF Unregister
<1>17. CASE LeaveService
  BY <1>17 DEF LeaveService
<1>18. CASE LeaveRow
  BY <1>18 DEF LeaveRow
<1>19. CASE LeaveIdentity
  BY <1>19 DEF LeaveIdentity
<1>20. CASE Killed
  BY <1>20 DEF Killed
<1>21. CASE Loosen
  BY <1>21 DEF Loosen
<1>22. CASE DaemonStarts
  BY <1>22 DEF DaemonStarts
<1>23. CASE DaemonDies
  BY <1>23 DEF DaemonDies
<1>24. CASE Boot
  BY <1>24 DEF Boot
<1>25. CASE DaemonReports
  BY <1>25 DEF DaemonReports
<1>26. CASE UNCHANGED vars
  BY <1>26 DEF vars
<1> QED
  BY <1>1, <1>2, <1>3, <1>4, <1>5, <1>6, <1>7, <1>8, <1>9, <1>10, <1>11,
     <1>12, <1>13, <1>14, <1>15, <1>16, <1>17, <1>18, <1>19, <1>20,
     <1>21, <1>22, <1>23, <1>24, <1>25, <1>26 DEF Next, CommandStep

(* The service comes off first. *)
LEMMA OffStep == TypeOK /\ ComesOff /\ [Next]_vars => ComesOff'
<1> SUFFICES ASSUME TypeOK, ComesOff, [Next]_vars PROVE ComesOff'
  OBVIOUS
<1> USE Numbers DEF ComesOff, TypeOK,
             Befalls, Troubles, Goes, Ends, Returns, loads, daemonLoads,
             UnregisterNode, StopAndRemove, RemoveIdentity, fileVars, serviceVars,
             serverVars
<1>1. CASE Register
  BY <1>1 DEF Register
<1>2. ASSUME NEW i \in NodeIds, RegisterNode(i) PROVE ComesOff'
  BY <1>2 DEF RegisterNode
<1>3. CASE RegisterNodeFails
  BY <1>3 DEF RegisterNodeFails
<1>4. CASE SaveIdentity
  BY <1>4 DEF SaveIdentity
<1>5. CASE SaveIdentityFails
  BY <1>5 DEF SaveIdentityFails
<1>6. CASE GiveBack
  BY <1>6 DEF GiveBack
<1>7. ASSUME NEW ok \in BOOLEAN, EnsureUser(ok) PROVE ComesOff'
  BY <1>7 DEF EnsureUser
<1>8. ASSUME NEW ok \in BOOLEAN, TakeOwnership(ok) PROVE ComesOff'
  BY <1>8 DEF TakeOwnership
<1>9. ASSUME NEW ok \in BOOLEAN, Install(ok) PROVE ComesOff'
  BY <1>9 DEF Install
<1>10. ASSUME NEW ok \in BOOLEAN, Start(ok) PROVE ComesOff'
  BY <1>10 DEF Start
<1>11. CASE Verified
  BY <1>11 DEF Verified
<1>12. CASE NotVerified
  BY <1>12 DEF NotVerified
<1>13. CASE RollbackService
  BY <1>13 DEF RollbackService
<1>14. CASE RollbackIdentity
  BY <1>14 DEF RollbackIdentity
<1>15. CASE RollbackRow
  BY <1>15 DEF RollbackRow
<1>16. CASE Unregister
  BY <1>16 DEF Unregister
<1>17. CASE LeaveService
  BY <1>17 DEF LeaveService
<1>18. CASE LeaveRow
  BY <1>18 DEF LeaveRow
<1>19. CASE LeaveIdentity
  BY <1>19 DEF LeaveIdentity
<1>20. CASE Killed
  BY <1>20 DEF Killed
<1>21. CASE Loosen
  BY <1>21 DEF Loosen
<1>22. CASE DaemonStarts
  BY <1>22 DEF DaemonStarts
<1>23. CASE DaemonDies
  BY <1>23 DEF DaemonDies
<1>24. CASE Boot
  BY <1>24 DEF Boot
<1>25. CASE DaemonReports
  BY <1>25 DEF DaemonReports
<1>26. CASE UNCHANGED vars
  BY <1>26 DEF vars
<1> QED
  BY <1>1, <1>2, <1>3, <1>4, <1>5, <1>6, <1>7, <1>8, <1>9, <1>10, <1>11,
     <1>12, <1>13, <1>14, <1>15, <1>16, <1>17, <1>18, <1>19, <1>20,
     <1>21, <1>22, <1>23, <1>24, <1>25, <1>26 DEF Next, CommandStep

(* Leaving completes. *)
LEMMA LeftStep == TypeOK /\ ComesOff /\ HasLeft /\ [Next]_vars => HasLeft'
<1> SUFFICES ASSUME TypeOK, ComesOff, HasLeft, [Next]_vars PROVE HasLeft'
  OBVIOUS
<1> USE Numbers DEF HasLeft, ComesOff, TypeOK,
             Befalls, Troubles, Goes, Ends, Returns, loads, daemonLoads,
             UnregisterNode, StopAndRemove, RemoveIdentity, fileVars, serviceVars,
             serverVars
<1>1. CASE Register
  BY <1>1 DEF Register
<1>2. ASSUME NEW i \in NodeIds, RegisterNode(i) PROVE HasLeft'
  BY <1>2 DEF RegisterNode
<1>3. CASE RegisterNodeFails
  BY <1>3 DEF RegisterNodeFails
<1>4. CASE SaveIdentity
  BY <1>4 DEF SaveIdentity
<1>5. CASE SaveIdentityFails
  BY <1>5 DEF SaveIdentityFails
<1>6. CASE GiveBack
  BY <1>6 DEF GiveBack
<1>7. ASSUME NEW ok \in BOOLEAN, EnsureUser(ok) PROVE HasLeft'
  BY <1>7 DEF EnsureUser
<1>8. ASSUME NEW ok \in BOOLEAN, TakeOwnership(ok) PROVE HasLeft'
  BY <1>8 DEF TakeOwnership
<1>9. ASSUME NEW ok \in BOOLEAN, Install(ok) PROVE HasLeft'
  BY <1>9 DEF Install
<1>10. ASSUME NEW ok \in BOOLEAN, Start(ok) PROVE HasLeft'
  BY <1>10 DEF Start
<1>11. CASE Verified
  BY <1>11 DEF Verified
<1>12. CASE NotVerified
  BY <1>12 DEF NotVerified
<1>13. CASE RollbackService
  BY <1>13 DEF RollbackService
<1>14. CASE RollbackIdentity
  BY <1>14 DEF RollbackIdentity
<1>15. CASE RollbackRow
  BY <1>15 DEF RollbackRow
<1>16. CASE Unregister
  BY <1>16 DEF Unregister
<1>17. CASE LeaveService
  BY <1>17 DEF LeaveService
<1>18. CASE LeaveRow
  BY <1>18 DEF LeaveRow
<1>19. CASE LeaveIdentity
  BY <1>19 DEF LeaveIdentity
<1>20. CASE Killed
  BY <1>20 DEF Killed
<1>21. CASE Loosen
  BY <1>21 DEF Loosen
<1>22. CASE DaemonStarts
  BY <1>22 DEF DaemonStarts
<1>23. CASE DaemonDies
  BY <1>23 DEF DaemonDies
<1>24. CASE Boot
  BY <1>24 DEF Boot
<1>25. CASE DaemonReports
  BY <1>25 DEF DaemonReports
<1>26. CASE UNCHANGED vars
  BY <1>26 DEF vars
<1> QED
  BY <1>1, <1>2, <1>3, <1>4, <1>5, <1>6, <1>7, <1>8, <1>9, <1>10, <1>11,
     <1>12, <1>13, <1>14, <1>15, <1>16, <1>17, <1>18, <1>19, <1>20,
     <1>21, <1>22, <1>23, <1>24, <1>25, <1>26 DEF Next, CommandStep

(* The identity is put on before the service. *)
LEMMA OnStep == TypeOK /\ ComesOff /\ PutOn /\ [Next]_vars => PutOn'
<1> SUFFICES ASSUME TypeOK, ComesOff, PutOn, [Next]_vars PROVE PutOn'
  OBVIOUS
<1> USE Numbers DEF PutOn, ComesOff, TypeOK,
             Befalls, Troubles, Goes, Ends, Returns, loads, daemonLoads,
             UnregisterNode, StopAndRemove, RemoveIdentity, fileVars, serviceVars,
             serverVars
<1>1. CASE Register
  BY <1>1 DEF Register
<1>2. ASSUME NEW i \in NodeIds, RegisterNode(i) PROVE PutOn'
  BY <1>2 DEF RegisterNode
<1>3. CASE RegisterNodeFails
  BY <1>3 DEF RegisterNodeFails
<1>4. CASE SaveIdentity
  BY <1>4 DEF SaveIdentity
<1>5. CASE SaveIdentityFails
  BY <1>5 DEF SaveIdentityFails
<1>6. CASE GiveBack
  BY <1>6 DEF GiveBack
<1>7. ASSUME NEW ok \in BOOLEAN, EnsureUser(ok) PROVE PutOn'
  BY <1>7 DEF EnsureUser
<1>8. ASSUME NEW ok \in BOOLEAN, TakeOwnership(ok) PROVE PutOn'
  BY <1>8 DEF TakeOwnership
<1>9. ASSUME NEW ok \in BOOLEAN, Install(ok) PROVE PutOn'
  BY <1>9 DEF Install
<1>10. ASSUME NEW ok \in BOOLEAN, Start(ok) PROVE PutOn'
  BY <1>10 DEF Start
<1>11. CASE Verified
  BY <1>11 DEF Verified
<1>12. CASE NotVerified
  BY <1>12 DEF NotVerified
<1>13. CASE RollbackService
  BY <1>13 DEF RollbackService
<1>14. CASE RollbackIdentity
  BY <1>14 DEF RollbackIdentity
<1>15. CASE RollbackRow
  BY <1>15 DEF RollbackRow
<1>16. CASE Unregister
  BY <1>16 DEF Unregister
<1>17. CASE LeaveService
  BY <1>17 DEF LeaveService
<1>18. CASE LeaveRow
  BY <1>18 DEF LeaveRow
<1>19. CASE LeaveIdentity
  BY <1>19 DEF LeaveIdentity
<1>20. CASE Killed
  BY <1>20 DEF Killed
<1>21. CASE Loosen
  BY <1>21 DEF Loosen
<1>22. CASE DaemonStarts
  BY <1>22 DEF DaemonStarts
<1>23. CASE DaemonDies
  BY <1>23 DEF DaemonDies
<1>24. CASE Boot
  BY <1>24 DEF Boot
<1>25. CASE DaemonReports
  BY <1>25 DEF DaemonReports
<1>26. CASE UNCHANGED vars
  BY <1>26 DEF vars
<1> QED
  BY <1>1, <1>2, <1>3, <1>4, <1>5, <1>6, <1>7, <1>8, <1>9, <1>10, <1>11,
     <1>12, <1>13, <1>14, <1>15, <1>16, <1>17, <1>18, <1>19, <1>20,
     <1>21, <1>22, <1>23, <1>24, <1>25, <1>26 DEF Next, CommandStep

(* The row follows the token. *)
LEMMA RowStep == TypeOK /\ PutOn /\ RowFollows /\ [Next]_vars => RowFollows'
<1> SUFFICES ASSUME TypeOK, PutOn, RowFollows, [Next]_vars PROVE RowFollows'
  OBVIOUS
<1> USE Numbers DEF RowFollows, RowsHaveSpeakers, PutOn, TypeOK,
             Befalls, Troubles, Goes, Ends, Returns, loads, daemonLoads,
             UnregisterNode, StopAndRemove, RemoveIdentity, fileVars, serviceVars,
             serverVars
<1>1. CASE Register
  BY <1>1 DEF Register
<1>2. ASSUME NEW i \in NodeIds, RegisterNode(i) PROVE RowFollows'
  BY <1>2 DEF RegisterNode
<1>3. CASE RegisterNodeFails
  BY <1>3 DEF RegisterNodeFails
<1>4. CASE SaveIdentity
  BY <1>4 DEF SaveIdentity
<1>5. CASE SaveIdentityFails
  BY <1>5 DEF SaveIdentityFails
<1>6. CASE GiveBack
  BY <1>6 DEF GiveBack
<1>7. ASSUME NEW ok \in BOOLEAN, EnsureUser(ok) PROVE RowFollows'
  BY <1>7 DEF EnsureUser
<1>8. ASSUME NEW ok \in BOOLEAN, TakeOwnership(ok) PROVE RowFollows'
  BY <1>8 DEF TakeOwnership
<1>9. ASSUME NEW ok \in BOOLEAN, Install(ok) PROVE RowFollows'
  BY <1>9 DEF Install
<1>10. ASSUME NEW ok \in BOOLEAN, Start(ok) PROVE RowFollows'
  BY <1>10 DEF Start
<1>11. CASE Verified
  BY <1>11 DEF Verified
<1>12. CASE NotVerified
  BY <1>12 DEF NotVerified
<1>13. CASE RollbackService
  BY <1>13 DEF RollbackService
<1>14. CASE RollbackIdentity
  BY <1>14 DEF RollbackIdentity
<1>15. CASE RollbackRow
  BY <1>15 DEF RollbackRow
<1>16. CASE Unregister
  BY <1>16 DEF Unregister
<1>17. CASE LeaveService
  BY <1>17 DEF LeaveService
<1>18. CASE LeaveRow
  BY <1>18 DEF LeaveRow
<1>19. CASE LeaveIdentity
  BY <1>19 DEF LeaveIdentity
<1>20. CASE Killed
  BY <1>20 DEF Killed
<1>21. CASE Loosen
  BY <1>21 DEF Loosen
<1>22. CASE DaemonStarts
  BY <1>22 DEF DaemonStarts
<1>23. CASE DaemonDies
  BY <1>23 DEF DaemonDies
<1>24. CASE Boot
  BY <1>24 DEF Boot
<1>25. CASE DaemonReports
  BY <1>25 DEF DaemonReports
<1>26. CASE UNCHANGED vars
  BY <1>26 DEF vars
<1> QED
  BY <1>1, <1>2, <1>3, <1>4, <1>5, <1>6, <1>7, <1>8, <1>9, <1>10, <1>11,
     <1>12, <1>13, <1>14, <1>15, <1>16, <1>17, <1>18, <1>19, <1>20,
     <1>21, <1>22, <1>23, <1>24, <1>25, <1>26 DEF Next, CommandStep

(* A failure leaves no identity. *)
LEMMA CleanStep == TypeOK /\ PutOn /\ RowFollows /\ FailedClean /\ [Next]_vars => FailedClean'
<1> SUFFICES ASSUME TypeOK, PutOn, RowFollows, FailedClean, [Next]_vars PROVE FailedClean'
  OBVIOUS
<1> USE Numbers DEF FailedClean, PutOn, RowFollows, TypeOK,
             Befalls, Troubles, Goes, Ends, Returns, loads, daemonLoads,
             UnregisterNode, StopAndRemove, RemoveIdentity, fileVars, serviceVars,
             serverVars
<1>1. CASE Register
  BY <1>1 DEF Register
<1>2. ASSUME NEW i \in NodeIds, RegisterNode(i) PROVE FailedClean'
  BY <1>2 DEF RegisterNode
<1>3. CASE RegisterNodeFails
  BY <1>3 DEF RegisterNodeFails
<1>4. CASE SaveIdentity
  BY <1>4 DEF SaveIdentity
<1>5. CASE SaveIdentityFails
  BY <1>5 DEF SaveIdentityFails
<1>6. CASE GiveBack
  BY <1>6 DEF GiveBack
<1>7. ASSUME NEW ok \in BOOLEAN, EnsureUser(ok) PROVE FailedClean'
  BY <1>7 DEF EnsureUser
<1>8. ASSUME NEW ok \in BOOLEAN, TakeOwnership(ok) PROVE FailedClean'
  BY <1>8 DEF TakeOwnership
<1>9. ASSUME NEW ok \in BOOLEAN, Install(ok) PROVE FailedClean'
  BY <1>9 DEF Install
<1>10. ASSUME NEW ok \in BOOLEAN, Start(ok) PROVE FailedClean'
  BY <1>10 DEF Start
<1>11. CASE Verified
  BY <1>11 DEF Verified
<1>12. CASE NotVerified
  BY <1>12 DEF NotVerified
<1>13. CASE RollbackService
  BY <1>13 DEF RollbackService
<1>14. CASE RollbackIdentity
  BY <1>14 DEF RollbackIdentity
<1>15. CASE RollbackRow
  BY <1>15 DEF RollbackRow
<1>16. CASE Unregister
  BY <1>16 DEF Unregister
<1>17. CASE LeaveService
  BY <1>17 DEF LeaveService
<1>18. CASE LeaveRow
  BY <1>18 DEF LeaveRow
<1>19. CASE LeaveIdentity
  BY <1>19 DEF LeaveIdentity
<1>20. CASE Killed
  BY <1>20 DEF Killed
<1>21. CASE Loosen
  BY <1>21 DEF Loosen
<1>22. CASE DaemonStarts
  BY <1>22 DEF DaemonStarts
<1>23. CASE DaemonDies
  BY <1>23 DEF DaemonDies
<1>24. CASE Boot
  BY <1>24 DEF Boot
<1>25. CASE DaemonReports
  BY <1>25 DEF DaemonReports
<1>26. CASE UNCHANGED vars
  BY <1>26 DEF vars
<1> QED
  BY <1>1, <1>2, <1>3, <1>4, <1>5, <1>6, <1>7, <1>8, <1>9, <1>10, <1>11,
     <1>12, <1>13, <1>14, <1>15, <1>16, <1>17, <1>18, <1>19, <1>20,
     <1>21, <1>22, <1>23, <1>24, <1>25, <1>26 DEF Next, CommandStep

-----------------------------------------------------------------------------
LEMMA InitHolds ==
  Init => TypeOK /\ ComesOff /\ HasLeft /\ PutOn /\ RowFollows /\ FailedClean
<1> SUFFICES ASSUME Init
             PROVE  TypeOK /\ ComesOff /\ HasLeft /\ PutOn /\ RowFollows
                    /\ FailedClean
  OBVIOUS
<1>1. TypeOK
  <2>1. cpc \in Points /\ exit \in Exits
    BY Names DEF Init
  <2>2. rows \in [NodeIds -> {"unused", "active", "left"}]
    BY DEF Init
  <2>3. commands \in 0..MaxCommands
    BY Numbers DEF Init
  <2> QED
    BY <2>1, <2>2, <2>3 DEF Init, TypeOK, Troubles
<1>2. ComesOff /\ HasLeft /\ PutOn /\ FailedClean
  BY DEF Init, ComesOff, HasLeft, PutOn, FailedClean
<1>3. RowFollows
  BY DEF Init, RowFollows, RowsHaveSpeakers
<1> QED
  BY <1>1, <1>2, <1>3

(* The state of a command, the machine and the registry stays well typed.    *)
THEOREM TypeCorrect == Spec => []TypeOK
BY InitHolds, TypeStep, PTL DEF Spec

LEMMA ComesOffHolds == Spec => []ComesOff
BY InitHolds, OffStep, TypeCorrect, PTL DEF Spec

(* Unregistering takes the machine off, but for what it fails to remove,     *)
(* whatever happens to the requests, the daemon or the file's mode, and      *)
(* however earlier commands ended.                                           *)
THEOREM LeavesLocallyHolds == Spec => []LeavesLocally
<1>1. TypeOK /\ ComesOff /\ HasLeft => LeavesLocally
  BY DEF TypeOK, ComesOff, HasLeft, LeavesLocally
<1>2. Spec => []HasLeft
  BY InitHolds, LeftStep, TypeCorrect, ComesOffHolds, PTL DEF Spec
<1> QED
  BY <1>1, <1>2, TypeCorrect, ComesOffHolds, PTL

LEMMA PutOnHolds == Spec => []PutOn
BY InitHolds, OnStep, TypeCorrect, ComesOffHolds, PTL DEF Spec

(* Unless the file was loosened or the service is stuck, it never runs       *)
(* without an identity it can read.                                          *)
THEOREM ServiceCanReadHolds == Spec => []ServiceCanRead
<1>1. TypeOK /\ PutOn => ServiceCanRead
  BY DEF TypeOK, PutOn, ServiceCanRead
<1> QED
  BY <1>1, TypeCorrect, PutOnHolds, PTL

(* Under the same conditions the daemon never acts for a node other than the *)
(* registered one.                                                           *)
THEOREM DaemonIsThisNodeHolds == Spec => []DaemonIsThisNode
<1>1. PutOn => DaemonIsThisNode
  BY DEF PutOn, DaemonIsThisNode
<1> QED
  BY <1>1, PutOnHolds, PTL

LEMMA RowFollowsHolds == Spec => []RowFollows
BY InitHolds, RowStep, TypeCorrect, PutOnHolds, PTL DEF Spec

(* As long as nothing has gone wrong no row is stranded.                     *)
THEOREM NoStrandedRowHolds == Spec => []NoStrandedRow
<1>1. RowFollows => NoStrandedRow
  BY DEF RowFollows, NoStrandedRow
<1> QED
  BY <1>1, RowFollowsHolds, PTL

(* As long as nothing has gone wrong a failed registration leaves nothing.   *)
THEOREM RegisterIsAtomicHolds == Spec => []RegisterIsAtomic
<1>1. TypeOK /\ PutOn /\ RowFollows /\ FailedClean => RegisterIsAtomic
  BY Numbers
  DEF TypeOK, PutOn, RowFollows, FailedClean, RowsHaveSpeakers, RegisterIsAtomic
<1>2. Spec => []FailedClean
  BY InitHolds, CleanStep, TypeCorrect, PutOnHolds, RowFollowsHolds, PTL DEF Spec
<1> QED
  BY <1>1, <1>2, TypeCorrect, PutOnHolds, RowFollowsHolds, PTL
=============================================================================
