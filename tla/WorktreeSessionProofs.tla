------------------------ MODULE WorktreeSessionProofs ------------------------
(***************************************************************************)
(* Proofs about the remotes of sandboxes and the worktree sessions that    *)
(* register them, for any number of runs, any setup and any interference   *)
(* from the user.                                                          *)
(*                                                                         *)
(* Part 1: a registered sandbox remote is a hardened one. Part 2: a        *)
(* session is one of the runs of SandboxRemote, its command runs in its    *)
(* clone only, and a fetch from it keeps what the session started from.    *)
(***************************************************************************)
EXTENDS WorktreeSession, TLAPS

-----------------------------------------------------------------------------
\* Part 1: the remotes

LEMMA SixSettings ==
  /\ Len(Settings) = 6
  /\ Settings[1] = "url"
  /\ \A k \in 2 .. 6 : Settings[k] # "url" /\ Settings[k] \in Hardening
  BY DEF Settings, Hardening

\* Writing one more setting after the URL adds that setting.
LEMMA OneMoreKey ==
  ASSUME NEW k \in 2 .. 6
  PROVE  WrittenKeys(k) = WrittenKeys(k - 1) \cup {Settings[k]}
<1>1. 2 .. k = (2 .. k - 1) \cup {k}
  OBVIOUS
<1>2. QED
  BY <1>1 DEF WrittenKeys

LEMMA FirstKey == WrittenKeys(1) = {}
  BY DEF WrittenKeys

LEMMA InitRemoteInv == Init => RemoteInv
  BY SixSettings, RemoteAssumption DEF Init, RemoteInv, TypeOK, KeysFollowUrl, PC

LEMMA LookStep ==
  ASSUME RemoteInv, NEW r \in Runs, Look(r) \/ LookAgain(r), UNCHANGED raced
  PROVE  RemoteInv'
<1>1. /\ url' = url /\ keys' = keys /\ written' = written
      /\ faulty' \subseteq Runs
  BY DEF Look, LookAgain, ReadUrl, Fault, section, RemoteInv, TypeOK
<1>2. PICK to \in PC : pc' = [pc EXCEPT ![r] = to]
                       /\ \/ pc[r] = "look" /\ to \in {"write", "replace", "exited"}
                          \/ pc[r] = "lookAgain" /\ to \in {"remove", "exited"}
  BY DEF Look, LookAgain, Goto, PC
<1>3. TypeOK'
  BY <1>1, <1>2 DEF RemoteInv, TypeOK
<1>4. KeysFollowUrl'
  BY <1>1, <1>2, SixSettings DEF RemoteInv, TypeOK, KeysFollowUrl
<1>5. QED
  BY <1>3, <1>4 DEF RemoteInv

\* Removing the section removes the URL, so nothing is claimed of its keys.
LEMMA RemoveStep ==
  ASSUME RemoteInv, NEW r \in Runs, Replace(r) \/ Remove(r), UNCHANGED raced
  PROVE  RemoteInv'
<1>1. /\ written' = written /\ faulty' \subseteq Runs
      /\ UNCHANGED section \/ (url' = NoUrl /\ keys' = {})
  BY DEF Replace, Remove, RemoveSection, Fault, section, RemoteInv, TypeOK
<1>2. PICK to \in {"write", "exited"} :
        pc' = [pc EXCEPT ![r] = to] /\ (to = "write" => pc[r] = "replace")
  BY DEF Replace, Remove, Goto
<1>3. TypeOK'
  BY <1>1, <1>2 DEF RemoteInv, TypeOK, section, PC
<1>4. KeysFollowUrl'
  BY <1>1, <1>2, SixSettings, RemoteAssumption DEF RemoteInv, TypeOK, KeysFollowUrl, section
<1>5. QED
  BY <1>3, <1>4 DEF RemoteInv

LEMMA WriteStep ==
  ASSUME RemoteInv, NEW r \in Runs, Write(r), UNCHANGED raced
  PROVE  RemoteInv'
<1> DEFINE k == written[r] + 1
<1>1. pc[r] = "write" /\ k \in 1 .. 6 /\ written[r] \in Nat
  BY SixSettings DEF Write, Goto, RemoteInv, TypeOK, KeysFollowUrl
<1>2. CASE pc' = [pc EXCEPT ![r] = "exited"] /\ Fault(r) /\ UNCHANGED written
  <2>1. TypeOK'
    BY <1>2 DEF Fault, section, RemoteInv, TypeOK, PC
  <2>2. KeysFollowUrl'
    BY <1>2 DEF Fault, section, RemoteInv, TypeOK, KeysFollowUrl
  <2>3. QED
    BY <2>1, <2>2 DEF RemoteInv
<1>3. CASE /\ written' = [written EXCEPT ![r] = k]
           /\ pc' = [pc EXCEPT ![r] = IF k = 6 THEN "exec" ELSE "write"]
           /\ UNCHANGED faulty
           /\ IF Settings[k] = "url" THEN url' = r /\ UNCHANGED keys
                                     ELSE keys' = keys \cup {Settings[k]} /\ UNCHANGED url
  <2>1. TypeOK'
    BY <1>1, <1>3, SixSettings DEF RemoteInv, TypeOK, PC
  <2>2. CASE k = 1
    <3>1. url' = r /\ keys' = keys /\ written'[r] = 1 /\ pc'[r] = "write"
      BY <1>1, <1>3, <2>2, SixSettings DEF RemoteInv, TypeOK
    <3>2. KeysFollowUrl'
      BY <1>1, <1>3, <3>1, SixSettings, FirstKey DEF RemoteInv, TypeOK, KeysFollowUrl
    <3>3. QED
      BY <2>1, <3>2 DEF RemoteInv
  <2>3. CASE k \in 2 .. 6
    <3>1. url' = url /\ keys' = keys \cup {Settings[k]} /\ written'[r] = k
          /\ WrittenKeys(k) = WrittenKeys(written[r]) \cup {Settings[k]}
      BY <1>1, <1>3, <2>3, SixSettings, OneMoreKey DEF RemoteInv, TypeOK
    <3>2. /\ \A q \in Runs \ {r} : written'[q] = written[q] /\ pc'[q] = pc[q]
          /\ pc'[r] = IF k = 6 THEN "exec" ELSE "write"
      BY <1>3 DEF RemoteInv, TypeOK
    <3> HIDE DEF k
    <3>3. ASSUME NEW q \in Runs, url' = q
          PROVE  written'[q] >= 1 /\ WrittenKeys(written'[q]) \subseteq keys'
      <4>1. written[q] >= 1 /\ WrittenKeys(written[q]) \subseteq keys
        BY <3>1, <3>3 DEF RemoteInv, KeysFollowUrl
      <4>2. CASE q = r
        BY <2>3, <3>1, <4>1, <4>2
      <4>3. CASE q # r
        BY <3>1, <3>2, <4>1, <4>3
      <4>4. QED
        BY <4>2, <4>3
    <3>4. ASSUME NEW q \in Runs
          PROVE  /\ pc'[q] \in {"look", "replace"} => written'[q] = 0
                 /\ pc'[q] = "write" => written'[q] < Len(Settings)
                 /\ pc'[q] \in {"exec", "lookAgain", "remove"} => written'[q] = Len(Settings)
      BY <2>3, <3>1, <3>2, SixSettings DEF RemoteInv, KeysFollowUrl
    <3>5. KeysFollowUrl'
      BY <3>3, <3>4 DEF KeysFollowUrl, WrittenKeys, Settings
    <3>6. QED
      BY <2>1, <3>5 DEF RemoteInv
  <2>4. QED
    BY <1>1, <2>2, <2>3
<1>4. QED
  BY <1>1, <1>2, <1>3, SixSettings DEF Write, Goto

LEMMA OtherStep ==
  ASSUME RemoteInv,
         \/ \E r \in Runs : (Finish(r) \/ Kill(r)) /\ UNCHANGED raced
         \/ UserEdits
         \/ UNCHANGED vars
  PROVE  RemoteInv'
<1>1. CASE \E r \in Runs : (Finish(r) \/ Kill(r)) /\ UNCHANGED raced
  <2>1. PICK r \in Runs : (Finish(r) \/ Kill(r)) /\ UNCHANGED raced
    BY <1>1
  <2>2. UNCHANGED <<url, keys, written, faulty, raced>>
    BY <2>1 DEF Finish, Kill, section
  <2>3. \/ pc' = [pc EXCEPT ![r] = "killed"]
        \/ pc[r] = "exec" /\ pc' = [pc EXCEPT ![r] = "lookAgain"]
    BY <2>1 DEF Finish, Kill, Goto
  <2>4. TypeOK'
    BY <2>2, <2>3 DEF RemoteInv, TypeOK, PC
  <2>5. KeysFollowUrl'
    BY <2>2, <2>3 DEF RemoteInv, TypeOK, KeysFollowUrl
  <2>6. QED
    BY <2>4, <2>5 DEF RemoteInv
<1>2. CASE UserEdits
  <2>1. /\ UNCHANGED <<pc, written, faulty>> /\ url' \in {NoUrl, UserUrl}
        /\ keys' \subseteq keys /\ raced' \subseteq Runs
    BY <1>2 DEF UserEdits, RemoveSection, RemoteInv, TypeOK
  <2>2. TypeOK'
    BY <2>1 DEF RemoteInv, TypeOK
  <2>3. KeysFollowUrl'
    BY <2>1, RemoteAssumption DEF RemoteInv, KeysFollowUrl
  <2>4. QED
    BY <2>2, <2>3 DEF RemoteInv
<1>3. CASE UNCHANGED vars
  BY <1>3 DEF vars, section, RemoteInv, TypeOK, KeysFollowUrl
<1>4. QED
  BY <1>1, <1>2, <1>3

LEMMA NextRemoteInv == RemoteInv /\ [Next]_vars => RemoteInv'
  BY LookStep, RemoveStep, WriteStep, OtherStep DEF Next, Step

\* Whatever runs and the user do to the section, and whichever git commands
\* fail, the settings of a URL are there as long as the URL is.
THEOREM RemoteInvariant == Spec => []RemoteInv
  BY InitRemoteInv, NextRemoteInv, PTL DEF Spec

\* A remote that is registered for a running command is a hardened one.
THEOREM RemoteHardened == Spec => []Hardened
<1>1. RemoteInv => Hardened
  <2>1. WrittenKeys(Len(Settings)) = Hardening
    BY DEF WrittenKeys, Hardening
  <2>2. QED
    BY <2>1 DEF RemoteInv, TypeOK, KeysFollowUrl, Hardened
<1>2. QED
  BY <1>1, RemoteInvariant, PTL

-----------------------------------------------------------------------------
\* What each action does to the URL.

\* Nobody but r writes r's URL, and a fault of r is recorded.
LEMMA UrlStep ==
  ASSUME NEW r \in Runs, Step(r) \/ Kill(r)
  PROVE  /\ url' \in {url, NoUrl, r}
         /\ url' = r => url = r \/ pc[r] = "write"
         /\ faulty \subseteq faulty'
<1>1. CASE Look(r) \/ LookAgain(r)
  BY <1>1 DEF Look, LookAgain, ReadUrl, Fault, section
<1>2. CASE Replace(r) \/ Remove(r)
  BY <1>2, RemoteAssumption DEF Replace, Remove, RemoveSection, Fault, section
<1>3. CASE Write(r)
  BY <1>3 DEF Write, Fault, Goto, section
<1>4. CASE Finish(r) \/ Kill(r)
  BY <1>4 DEF Finish, Kill, section
<1>5. QED
  BY <1>1, <1>2, <1>3, <1>4 DEF Step

LEMMA ExitStep ==
  ASSUME RemoteInv, NEW r \in Runs, Step(r) \/ Kill(r),
         pc'[r] = "exited", r \notin faulty', NoStaleRemote
  PROVE  url' # r
<1>1. CASE Look(r)
  BY <1>1, SixSettings, RemoteAssumption
     DEF Look, ReadUrl, Fault, Goto, section, RemoteInv, TypeOK, KeysFollowUrl
<1>2. CASE Replace(r)
  BY <1>2, RemoteAssumption
     DEF Replace, Fault, Goto, RemoveSection, SectionExists, section, RemoteInv, TypeOK
<1>3. CASE Write(r)
  BY <1>3 DEF Write, Fault, Goto, RemoteInv, TypeOK
<1>4. CASE LookAgain(r)
  BY <1>4 DEF LookAgain, ReadUrl, Fault, Goto, section, RemoteInv, TypeOK
<1>5. CASE Remove(r)
  BY <1>5, RemoteAssumption
     DEF Remove, Fault, Goto, RemoveSection, SectionExists, section, RemoteInv, TypeOK
<1>6. CASE Finish(r) \/ Kill(r)
  BY <1>6 DEF Finish, Kill, Goto, RemoteInv, TypeOK
<1>7. QED
  BY <1>1, <1>2, <1>3, <1>4, <1>5, <1>6 DEF Step

\* A step of one run leaves where the others are alone.
LEMMA OthersStay ==
  ASSUME NEW r \in Runs, Step(r) \/ Kill(r), NEW q \in Runs, q # r, RemoteInv
  PROVE  pc'[q] = pc[q] /\ (q \in faulty' => q \in faulty)
  BY DEF Step, Look, Replace, Write, Finish, LookAgain, Remove, Kill, Goto,
         ReadUrl, Fault, RemoteInv, TypeOK

LEMMA NextNoStale ==
  RemoteInv /\ NoStaleRemote /\ [Next]_vars => NoStaleRemote'
<1> SUFFICES ASSUME RemoteInv, NoStaleRemote, [Next]_vars,
                    NEW q \in Runs, pc'[q] = "exited", q \notin faulty'
             PROVE  url' # q
  BY DEF NoStaleRemote
<1>1. ASSUME NEW r \in Runs, Step(r) \/ Kill(r)
      PROVE  url' # q
  <2>1. CASE r = q
    BY <1>1, <2>1, ExitStep
  <2>2. CASE r # q
    BY <1>1, <2>2, UrlStep, OthersStay, RemoteAssumption DEF NoStaleRemote
  <2>3. QED
    BY <2>1, <2>2
<1>2. CASE UserEdits
  BY <1>2, RemoteAssumption DEF UserEdits, RemoveSection
<1>3. CASE UNCHANGED vars
  BY <1>3 DEF vars, section, NoStaleRemote
<1>4. QED
  BY <1>1, <1>2, <1>3 DEF Next

\* A run whose git commands work leaves no remote to its instance behind.
THEOREM NoStaleRemoteLeft == Spec => []NoStaleRemote
<1>1. Init => NoStaleRemote
  BY DEF Init, NoStaleRemote
<1>2. QED
  BY <1>1, NextNoStale, RemoteInvariant, PTL DEF Spec

-----------------------------------------------------------------------------

LEMMA NextActsOnOwn ==
  RemoteInv /\ ActsOnOwn /\ [Next]_vars => ActsOnOwn'
<1> SUFFICES ASSUME RemoteInv, ActsOnOwn, [Next]_vars,
                    NEW q \in Runs, Acting(q)', q \notin faulty' \cup raced'
             PROVE  url' # UserUrl
  BY DEF ActsOnOwn
<1>1. ASSUME NEW r \in Runs, Step(r) \/ Kill(r), UNCHANGED raced
      PROVE  url' # UserUrl
  <2>1. /\ url' \in {url, NoUrl, r} /\ q \notin faulty /\ q \notin raced
    BY <1>1, UrlStep
  <2>2. CASE Acting(q)
    BY <2>1, <2>2, RemoteAssumption DEF ActsOnOwn
  <2>3. CASE ~Acting(q)
    <3>1. r = q
      BY <1>1, <2>3, OthersStay DEF Acting
    <3>2. CASE Look(q)
      BY <3>2, RemoteAssumption DEF Look, ReadUrl, Fault, Goto, IsExt, section, Acting,
                                    RemoteInv, TypeOK
    <3>3. CASE LookAgain(q)
      BY <3>3, RemoteAssumption DEF LookAgain, ReadUrl, Fault, Goto, section, Acting,
                                    RemoteInv, TypeOK
    <3>4. CASE Replace(q) \/ Write(q) \/ Remove(q)
      BY <2>3, <3>4 DEF Replace, Write, Remove, Goto, Acting
    <3>5. CASE Finish(q) \/ Kill(q)
      BY <3>5 DEF Finish, Kill, Goto, Acting, RemoteInv, TypeOK
    <3>6. QED
      BY <1>1, <3>1, <3>2, <3>3, <3>4, <3>5 DEF Step
  <2>4. QED
    BY <2>2, <2>3
<1>2. CASE UserEdits
  BY <1>2 DEF UserEdits, Acting
<1>3. CASE UNCHANGED vars
  BY <1>3 DEF vars, section, ActsOnOwn, Acting
<1>4. QED
  BY <1>1, <1>2, <1>3 DEF Next

\* Only a run that acts changes the section.
LEMMA KeepsUser ==
  ASSUME RemoteInv, ActsOnOwn, [Next]_vars,
         NEW q \in Runs, url = UserUrl, Acts(q), q \notin faulty' \cup raced
  PROVE  UNCHANGED section
<1>1. ASSUME NEW r \in Runs, Step(r) \/ Kill(r), UNCHANGED raced
      PROVE  UNCHANGED section
  <2>1. r = q
    <3>1. written'[q] = written[q] \/ r = q
      BY <1>1 DEF Step, Look, Replace, Write, Finish, LookAgain, Remove, Kill,
                  RemoteInv, TypeOK
    <3>2. QED
      BY <1>1, <3>1, OthersStay DEF Acts
  <2>2. ~Acting(q)
    BY <1>1, <2>1, UrlStep DEF ActsOnOwn
  <2>3. QED
    BY <1>1, <2>1, <2>2 DEF Step, Look, Replace, Write, Finish, LookAgain, Remove,
                            Kill, Goto, ReadUrl, Fault, section, Acting
<1>2. CASE UserEdits \/ UNCHANGED vars
  BY <1>2 DEF UserEdits, vars, Acts
<1>3. QED
  BY <1>1, <1>2 DEF Next

\* A remote of the user's survives every run whose git commands work.
THEOREM UserRemoteSurvives == Spec => UserRemoteKept
<1>1. Init => ActsOnOwn
  BY DEF Init, ActsOnOwn, Acting
<1>2. /\ RemoteInv /\ ActsOnOwn /\ [Next]_vars
      => [\A r \in Runs :
            url = UserUrl /\ Acts(r) /\ r \notin faulty' \cup raced => UNCHANGED section]_vars
  BY KeepsUser
<1>3. QED
  BY <1>1, <1>2, NextActsOnOwn, RemoteInvariant, PTL DEF Spec, UserRemoteKept

-----------------------------------------------------------------------------
\* Part 2: the sessions

LEMMA SetupStays == [SessionNext]_sessionVars => setup' = setup
  BY DEF SessionNext, SessionStep, sessionVars, session, Check, Prepare, Before, Register,
         Script, ShowRef, ScriptFails, CloneBranch, CloneHead, Switch, Commit, CommandEnds,
         Unregister, Killed, Fetch, DeleteBranch

LEMMA ChecksStay ==
  ASSUME setup' = setup
  PROVE  (Supported /\ ExtAllowed)' <=> Supported /\ ExtAllowed
<1>1. Supported' <=> Supported
  BY DEF Supported
<1>2. ExtAllowed' <=> ExtAllowed
  BY DEF ExtAllowed, ExtPolicy
<1>3. QED
  BY <1>1, <1>2

-----------------------------------------------------------------------------
\* Every step of a session is a step of SandboxRemote or leaves the remote be.
LEMMA SessionStepIsRemoteStep == [SessionNext]_sessionVars => [Next]_vars
<1> SUFFICES ASSUME [SessionNext]_sessionVars
             PROVE  [Next]_vars
  OBVIOUS
<1>1. ASSUME NEW r \in Runs, SessionStep(r) \/ Killed(r) \/ Fetch(r)
      PROVE  [Next]_vars
  <2>1. CASE Check(r) \/ Prepare(r)
    BY <2>1 DEF Check, Prepare, Before
  <2>2. CASE Register(r)
    BY <2>2 DEF Register, Next, Step
  <2>3. CASE \/ ShowRef(r) \/ ScriptFails(r) \/ CloneBranch(r) \/ CloneHead(r)
             \/ Switch(r) \/ Commit(r) \/ CommandEnds(r)
    BY <2>3 DEF ShowRef, ScriptFails, CloneBranch, CloneHead, Switch, Commit,
                CommandEnds, Script
  <2>4. CASE Unregister(r)
    BY <2>4 DEF Unregister, Next, Step
  <2>5. CASE Killed(r)
    BY <2>5 DEF Killed, Next
  <2>6. CASE Fetch(r)
    BY <2>6 DEF Fetch
  <2>7. QED
    BY <1>1, <2>1, <2>2, <2>3, <2>4, <2>5, <2>6 DEF SessionStep
<1>2. CASE UserEdits
  BY <1>2 DEF Next
<1>3. CASE DeleteBranch
  BY <1>3 DEF DeleteBranch
<1>4. CASE UNCHANGED sessionVars
  BY <1>4 DEF sessionVars
<1>5. QED
  BY <1>1, <1>2, <1>3, <1>4 DEF SessionNext

\* The sessions of one worktree name, with everything around the remote, are
\* runs of SandboxRemote: what is proved of the remote there holds here.
THEOREM SessionImplementsRemote == SessionSpec => Spec
<1>1. SessionInit => Init
  BY DEF SessionInit
<1>2. QED
  BY <1>1, SessionStepIsRemoteStep, PTL DEF SessionSpec, Spec

-----------------------------------------------------------------------------
LEMMA InitSessionInv == SessionInit => SessionInv
  BY SessionAssumption DEF SessionInit, Init, SessionInv, SessionTypeOK, Phase, Early, Branch

\* What the invariant says of one run, and of the other variables.
RunInv(r) ==
  /\ phase[r] \notin {"check", "refused"} => Supported /\ ExtAllowed
  /\ phase[r] \in Early => pc[r] = "look"
  /\ phase[r] \in {"clone head", "switch"} => base[r] = None
  /\ phase[r] \notin {"command", "over"} => clone[r] = None
  /\ phase[r] = "command" => clone[r] # None
  /\ phase[r] \in {"switch", "command"} => r \notin occupied
  /\ clone[r] # None /\ base[r] # None => base[r] \subseteq clone[r]

LEMMA InvByRun == SessionInv <=> SessionTypeOK /\ \A r \in Runs : RunInv(r)
  BY DEF SessionInv, RunInv

\* A run that is left alone keeps its part of the invariant.
LEMMA Bystander ==
  ASSUME NEW q \in Runs, RunInv(q), setup' = setup,
         phase'[q] = phase[q], phase[q] \in Early => pc'[q] = pc[q],
         clone'[q] = clone[q], base'[q] = base[q], q \in occupied' => q \in occupied
  PROVE  RunInv(q)'
  BY ChecksStay DEF RunInv

\* A step of the script, after which run r is in phase to with clone c and
\* base b.
LEMMA ScriptStep ==
  ASSUME SessionInv, RemoteInv, NEW r \in Runs, Script(r),
         NEW to \in Phase \ Early, NEW c \in Branch, NEW b \in Branch,
         phase' = [phase EXCEPT ![r] = to],
         clone' = [clone EXCEPT ![r] = c], base' = [base EXCEPT ![r] = b],
         phase[r] \notin {"check", "refused"},
         to \in {"clone head", "switch"} => b = None,
         to = "command" => c # None,
         to \notin {"command", "over"} => c = None,
         to \in {"switch", "command"} => r \notin occupied,
         c # None /\ b # None => b \subseteq c
  PROVE  SessionInv'
<1>1. UNCHANGED <<setup, branch, occupied, pc>>
  BY DEF Script, vars
<1>2. SessionTypeOK'
  BY <1>1 DEF SessionInv, SessionTypeOK
<1>3. ASSUME NEW q \in Runs
      PROVE  RunInv(q)'
  <2>1. CASE q = r
    <3>1. phase'[r] = to /\ clone'[r] = c /\ base'[r] = b
      BY DEF SessionInv, SessionTypeOK
    <3>2. Supported /\ ExtAllowed
      BY DEF SessionInv
    <3>3. to \notin Early
      OBVIOUS
    <3>4. QED
      BY <1>1, <2>1, <3>1, <3>2, <3>3, ChecksStay DEF RunInv
  <2>2. CASE q # r
    <3>1. phase'[q] = phase[q] /\ clone'[q] = clone[q] /\ base'[q] = base[q]
      BY <2>2 DEF SessionInv, SessionTypeOK
    <3>2. QED
      BY <1>1, <3>1, InvByRun, Bystander
  <2>3. QED
    BY <2>1, <2>2
<1>4. QED
  BY <1>2, <1>3 DEF SessionInv, RunInv

\* A step before the remote: only the phase moves, and what is in the way.
LEMMA EarlyStep ==
  ASSUME SessionInv, RemoteInv, NEW r \in Runs, Check(r) \/ Prepare(r)
  PROVE  SessionInv'
<1>1. /\ UNCHANGED <<setup, branch, clone, base, pc>> /\ pc[r] = "look"
      /\ occupied' \in {occupied, occupied \cup {r}}
  BY DEF Check, Prepare, Before, vars
<1>2. PICK to \in {"refused", "failed", "prepare", "register"} :
        /\ phase' = [phase EXCEPT ![r] = to]
        /\ to # "refused" => Supported /\ ExtAllowed
  BY DEF Check, Prepare, Enter, SessionInv
<1>3. SessionTypeOK'
  BY <1>1, <1>2 DEF SessionInv, SessionTypeOK, Phase, Early
<1>4. ASSUME NEW q \in Runs
      PROVE  RunInv(q)'
  <2>1. CASE q = r
    <3>1. phase'[r] = to
      BY <1>2 DEF SessionInv, SessionTypeOK
    <3>2. clone[r] = None
      BY DEF Check, Prepare, Enter, SessionInv
    <3>3. QED
      BY <1>1, <1>2, <2>1, <3>1, <3>2, ChecksStay DEF RunInv
  <2>2. CASE q # r
    <3>1. phase'[q] = phase[q] /\ (q \in occupied' => q \in occupied)
      BY <1>1, <1>2, <2>2 DEF SessionInv, SessionTypeOK
    <3>2. QED
      BY <1>1, <3>1, InvByRun, Bystander
  <2>3. QED
    BY <2>1, <2>2
<1>5. QED
  BY <1>3, <1>4 DEF SessionInv, RunInv

\* A step of SandboxRemote by a run that is past the early phases moves no
\* other run, and a clone that goes takes its base and its place with it.
LEMMA RemoteStep ==
  ASSUME SessionInv, RemoteInv, NEW r \in Runs,
         Register(r) \/ Unregister(r) \/ Killed(r)
  PROVE  SessionInv'
<1>1. /\ UNCHANGED <<setup, phase, branch>> /\ phase[r] \notin Early
      /\ occupied' \subseteq occupied
      /\ \/ UNCHANGED <<clone, base>>
         \/ /\ phase[r] = "over"
            /\ clone' = [clone EXCEPT ![r] = None] /\ base' = [base EXCEPT ![r] = None]
  BY DEF Register, Unregister, Killed, session, Early
<1>2. Step(r) \/ Kill(r)
  BY DEF Register, Unregister, Killed, Step
<1>3. SessionTypeOK'
  BY <1>1 DEF SessionInv, SessionTypeOK, Branch
<1>4. ASSUME NEW q \in Runs
      PROVE  RunInv(q)'
  <2>1. CASE q = r /\ UNCHANGED <<clone, base>>
    BY <1>1, <2>1, InvByRun, ChecksStay DEF RunInv
  <2>2. CASE /\ q = r /\ phase[r] = "over"
             /\ clone' = [clone EXCEPT ![r] = None]
    <3>1. clone'[r] = None
      BY <2>2 DEF SessionInv, SessionTypeOK
    <3>2. QED
      BY <1>1, <2>2, <3>1, InvByRun, ChecksStay DEF RunInv
  <2>3. CASE q # r
    <3>1. clone'[q] = clone[q] /\ base'[q] = base[q] /\ pc'[q] = pc[q]
      BY <1>1, <1>2, <2>3, OthersStay DEF SessionInv, SessionTypeOK
    <3>2. QED
      BY <1>1, <3>1, InvByRun, Bystander
  <2>4. QED
    BY <1>1, <2>1, <2>2, <2>3
<1>5. QED
  BY <1>3, <1>4 DEF SessionInv, RunInv

\* The script and the command.
LEMMA ScriptSteps ==
  ASSUME SessionInv, RemoteInv, NEW r \in Runs,
         \/ ShowRef(r) \/ ScriptFails(r) \/ CloneBranch(r) \/ CloneHead(r) \/ Switch(r)
         \/ Commit(r) \/ CommandEnds(r)
  PROVE  SessionInv'
<1>1. /\ Script(r) /\ branch \in Branch /\ clone[r] \in Branch /\ base[r] \in Branch
      /\ {} \in Branch /\ None \in Branch /\ {} # None
  BY SessionAssumption DEF ShowRef, ScriptFails, CloneBranch, CloneHead, Switch, Commit,
     CommandEnds, SessionInv, SessionTypeOK, Branch
<1>2. /\ phase = [phase EXCEPT ![r] = phase[r]] /\ clone = [clone EXCEPT ![r] = clone[r]]
      /\ base = [base EXCEPT ![r] = base[r]]
  BY DEF SessionInv, SessionTypeOK
<1>3. RunInv(r)
  BY InvByRun
<1>4. CASE ShowRef(r)
  <2>1. PICK to \in {"clone branch", "clone head"} :
          phase' = [phase EXCEPT ![r] = to] /\ (to = "clone head" => branch = None)
    BY <1>4 DEF ShowRef, Enter
  <2>2. /\ phase[r] = "register" /\ clone' = [clone EXCEPT ![r] = None]
        /\ base' = [base EXCEPT ![r] = branch]
    BY <1>2, <1>3, <1>4 DEF ShowRef, Enter, RunInv
  <2>3. to \in Phase \ Early /\ to \notin {"switch", "command", "over"}
    BY DEF Phase, Early
  <2>4. QED
    BY <1>1, <2>1, <2>2, <2>3, ScriptStep
<1>5. CASE ScriptFails(r) \/ CommandEnds(r)
  <2>1. /\ phase[r] \notin {"check", "refused"} /\ phase' = [phase EXCEPT ![r] = "over"]
        /\ clone' = clone /\ base' = base
    BY <1>5 DEF ScriptFails, CommandEnds, Enter
  <2>2. "over" \in Phase \ Early
    BY DEF Phase, Early
  <2>3. clone[r] # None /\ base[r] # None => base[r] \subseteq clone[r]
    BY <1>3 DEF RunInv
  <2>4. QED
    BY <1>1, <1>2, <2>1, <2>2, <2>3, ScriptStep, ZenonT(60)
<1>6. CASE CloneBranch(r)
  <2>1. PICK b \in {base[r], None} :
          base' = [base EXCEPT ![r] = b] /\ (b # None => b = branch)
    BY <1>6 DEF CloneBranch, Cloned
  <2>2. /\ phase[r] = "clone branch" /\ phase' = [phase EXCEPT ![r] = "command"]
        /\ clone' = [clone EXCEPT ![r] = branch] /\ branch # None /\ r \notin occupied
    BY <1>6 DEF CloneBranch, Enter
  <2>3. "command" \in Phase \ Early
    BY DEF Phase, Early
  <2>4. QED
    BY <1>1, <2>1, <2>2, <2>3, ScriptStep
<1>7. CASE CloneHead(r)
  <2>1. /\ phase[r] = "clone head" /\ phase' = [phase EXCEPT ![r] = "switch"]
        /\ clone' = [clone EXCEPT ![r] = None] /\ r \notin occupied
    BY <1>2, <1>3, <1>7 DEF CloneHead, Enter, RunInv
  <2>2. base' = [base EXCEPT ![r] = None]
    BY <1>3, <1>7, <2>1 DEF CloneHead, Cloned, RunInv
  <2>3. "switch" \in Phase \ Early
    BY DEF Phase, Early
  <2>4. QED
    BY <1>1, <2>1, <2>2, <2>3, ScriptStep
<1>8. CASE Switch(r)
  <2>1. /\ phase[r] = "switch" /\ phase' = [phase EXCEPT ![r] = "command"]
        /\ clone' = [clone EXCEPT ![r] = {}] /\ base' = [base EXCEPT ![r] = None]
        /\ r \notin occupied
    BY <1>2, <1>3, <1>8 DEF Switch, Enter, RunInv
  <2>2. "command" \in Phase \ Early
    BY DEF Phase, Early
  <2>3. QED
    BY <1>1, <2>1, <2>2, ScriptStep
<1>9. CASE Commit(r)
  <2> DEFINE c == clone[r] \cup {r}
  <2>1. /\ phase[r] = "command" /\ phase' = [phase EXCEPT ![r] = "command"]
        /\ clone' = [clone EXCEPT ![r] = c] /\ base' = [base EXCEPT ![r] = base[r]]
        /\ clone[r] # None /\ r \notin occupied
    BY <1>2, <1>3, <1>9 DEF Commit, RunInv
  <2>2. c \in Branch /\ c # None
    BY <1>1, <2>1, SessionAssumption DEF Branch
  <2>3. base[r] # None => base[r] \subseteq c
    BY <1>3, <2>1 DEF RunInv
  <2>4. "command" \in Phase \ Early
    BY DEF Phase, Early
  <2> HIDE DEF c
  <2>5. QED
    BY <1>1, <2>1, <2>2, <2>3, <2>4, ScriptStep
<1>10. QED
  BY <1>4, <1>5, <1>6, <1>7, <1>8, <1>9

\* Those who change the host's branch or section only.
LEMMA OutsideStep ==
  ASSUME SessionInv,
         \/ \E r \in Runs : Fetch(r)
         \/ UserEdits /\ UNCHANGED session
         \/ DeleteBranch
         \/ UNCHANGED sessionVars
  PROVE  SessionInv'
<1>1. /\ UNCHANGED <<setup, phase, clone, base, occupied, pc>>
      /\ branch' \in {branch, None} \cup {clone[r] : r \in Runs}
  BY DEF Fetch, UserEdits, DeleteBranch, sessionVars, session, vars
<1>2. SessionTypeOK'
  BY <1>1 DEF SessionInv, SessionTypeOK, Branch
<1>3. ASSUME NEW q \in Runs
      PROVE  RunInv(q)'
  BY <1>1, InvByRun, Bystander
<1>4. QED
  BY <1>2, <1>3 DEF SessionInv, RunInv

LEMMA NextSessionInv == SessionInv /\ RemoteInv /\ [SessionNext]_sessionVars => SessionInv'
  BY EarlyStep, RemoteStep, ScriptSteps, OutsideStep DEF SessionNext, SessionStep

\* Where each session is, what it has cloned and what that is based on, for
\* any number of runs of the worktree name and any repository and settings.
THEOREM SessionInvariant == SessionSpec => []SessionInv
<1>1. SessionSpec => []RemoteInv
  BY SessionImplementsRemote, RemoteInvariant, PTL
<1>2. QED
  BY <1>1, InitSessionInv, NextSessionInv, PTL DEF SessionSpec

\* The command never runs in the project, nor in what was in the clone's way.
THEOREM CommandConfined == SessionSpec => []CommandInClone
<1>1. SessionInv => CommandInClone
  BY DEF SessionInv, CommandInClone
<1>2. QED
  BY <1>1, SessionInvariant, PTL

\* The host's branch changes by a fetch or by its deletion only.
LEMMA KeepsFetched ==
  ASSUME SessionInv, RemoteInv, [SessionNext]_sessionVars,
         NEW r \in Runs, url = r, branch # None, branch' # None,
         clone[r] # None, base[r] # None
  PROVE  branch \cap base[r] \subseteq branch'
<1>1. base[r] \subseteq clone[r]
  BY DEF SessionInv
<1>2. ASSUME NEW q \in Runs, SessionStep(q) \/ Killed(q)
      PROVE  branch' = branch
  BY <1>2 DEF SessionStep, Check, Prepare, Before, Register, Script, ShowRef, ScriptFails,
     CloneBranch, CloneHead, Switch, Commit, CommandEnds, Unregister, Killed, session
<1>3. ASSUME NEW q \in Runs, Fetch(q)
      PROVE  branch' = clone[r]
  BY <1>3 DEF Fetch
<1>4. CASE UserEdits /\ UNCHANGED session
  BY <1>4 DEF session
<1>5. CASE DeleteBranch \/ UNCHANGED sessionVars
  BY <1>5 DEF DeleteBranch, sessionVars, session
<1>6. QED
  BY <1>1, <1>2, <1>3, <1>4, <1>5 DEF SessionNext, sessionVars, session

\* A fetch keeps what the host's branch had when the session was cloned.
THEOREM FetchKeeps == SessionSpec => FetchedKept
<1>1. /\ SessionInv /\ RemoteInv /\ [SessionNext]_sessionVars
      => [\A r \in Runs :
            url = r /\ branch # None /\ branch' # None /\ clone[r] # None /\ base[r] # None
              => branch \cap base[r] \subseteq branch']_sessionVars
  BY KeepsFetched
<1>2. SessionSpec => []RemoteInv
  BY SessionImplementsRemote, RemoteInvariant, PTL
<1>3. QED
  BY <1>1, <1>2, SessionInvariant, PTL DEF SessionSpec, FetchedKept

\* The remote of a session's running command has all its settings, in the
\* whole of the run as in the part of it that SandboxRemote has.
THEOREM SessionHardened == SessionSpec => []Hardened
  BY SessionImplementsRemote, RemoteHardened, PTL

\* A run whose git commands work leaves no remote to its instance behind.
THEOREM SessionLeavesNoRemote == SessionSpec => []NoStaleRemote
  BY SessionImplementsRemote, NoStaleRemoteLeft, PTL

\* A remote of the user's survives every session whose git commands work.
THEOREM SessionKeepsUserRemote == SessionSpec => UserRemoteKept
  BY SessionImplementsRemote, UserRemoteSurvives, PTL

-----------------------------------------------------------------------------

\* The variables that celily sets win over the user's: those of the backend
\* over the session's, and the session's over those of the configuration.
LEMMA ScriptEnvironment ==
  /\ ScriptEnv.HOME = ContainerHome
  /\ ScriptEnv.CELILY_WORKTREE_NAME = Name
  /\ ScriptEnv.CELILY_WORKTREE_BRANCH = BranchName
  /\ ScriptEnv.GIT_AUTHOR_NAME = Identity /\ ScriptEnv.GIT_COMMITTER_NAME = Identity
<1> DEFINE run == [GIT_AUTHOR_NAME |-> Identity, GIT_COMMITTER_NAME |-> Identity,
                   CELILY_WORKTREE_BRANCH |-> BranchName, CELILY_WORKTREE_NAME |-> Name]
           backend == [HOME |-> ContainerHome, HTTP_PROXY |-> "proxy"]
<1>1. ASSUME NEW n \in DOMAIN run
      PROVE  n \in DOMAIN WorktreeEnv /\ WorktreeEnv[n] = run[n] /\ n \notin DOMAIN backend
  BY DEF WorktreeEnv, Extend
<1>2. ASSUME NEW n \in DOMAIN backend
      PROVE  ScriptEnv[n] = backend[n]
  BY DEF ScriptEnv, ExecEnv, Extend
<1>3. ASSUME NEW n \in DOMAIN WorktreeEnv, n \notin DOMAIN backend
      PROVE  ScriptEnv[n] = WorktreeEnv[n]
  BY <1>3 DEF ScriptEnv, ExecEnv, Extend
<1>4. QED
  BY <1>1, <1>2, <1>3

\* Whatever environment the user asks for, the command is in the clone that
\* the remote fetches from, on its branch and with the host's identity.
THEOREM MeantSession == SessionSpec => []SessionAsMeant
<1>1. SessionAsMeant
  BY ScriptEnvironment DEF SessionAsMeant, ClonePath, RemotePath, Identity
<1>2. QED
  BY <1>1, PTL

-----------------------------------------------------------------------------

\* The check's look-up of the policy agrees with git's: it lets a session
\* start just where git runs the URL the user gives and none that it finds.
LEMMA CheckIsGits ==
  ASSUME setup \in Setups
  PROVE  ExtAllowed <=> setup.readable /\ TransportFit
<1> DEFINE Set(key, scopes) == {i \in DOMAIN setup.config :
                                  setup.config[i].key = key /\ setup.config[i].scope \in scopes}
           Of(scopes) == IF Set("protocol.ext.allow", scopes) # {}
                           THEN Set("protocol.ext.allow", scopes)
                           ELSE Set("protocol.allow", scopes)
           Is(scopes, value) == \E i \in Of(scopes) :
                                  /\ \A j \in Of(scopes) : j <= i
                                  /\ Lower[setup.config[i].value] = value
<1>1. \A i \in DOMAIN setup.config : i \in Nat
  BY SessionAssumption
<1>2. CASE setup.allowProtocol # None
  BY <1>2, SessionAssumption DEF ExtAllowed, ExtPolicy, TransportFit, GitAllows
<1>3. CASE setup.allowProtocol = None
  <2>1. \A scopes, fromUser :
          GitAllows(scopes, fromUser) <=>
            Is(scopes, "always") \/ (Is(scopes, "user") /\ fromUser)
    BY <1>3 DEF GitAllows
  <2>2. \A scopes : \A value :
          Is(scopes, value) <=> \E e \in LookUp(setup.config, scopes) : Lower[e.value] = value
    BY DEF LookUp, ConfigEntries
  <2>3. ~(Is(Scopes, "user") /\ Is(Scopes, "always"))
    BY <1>1
  <2> HIDE DEF Is
  <2>4. TransportFit <=> Is(Scopes, "user") /\ ~Is(Shared, "always")
    BY <2>1, <2>3 DEF TransportFit
  <2>5. CASE Is(Shared, "always")
    <3>1. \A policy \in ExtPolicy : Lower[policy] = "always"
      BY <1>3, <2>2, <2>5 DEF ExtPolicy
    <3>2. QED
      BY <2>4, <2>5, <3>1 DEF ExtAllowed
  <2>6. CASE ~Is(Shared, "always")
    <3>1. ExtPolicy = {e.value : e \in LookUp(setup.config, Scopes)}
      BY <1>3, <2>2, <2>6 DEF ExtPolicy
    <3>2. QED
      BY <2>2, <2>4, <2>6, <3>1 DEF ExtAllowed
  <2>7. QED
    BY <2>5, <2>6
<1>4. QED
  BY <1>2, <1>3

\* Why a run has been let in or refused.
Judged ==
  /\ setup \in Setups
  /\ \A r \in Runs : phase[r] = "refused" => ~(Supported /\ ExtAllowed)

LEMMA NextJudged ==
  ASSUME SessionInv, Judged, [SessionNext]_sessionVars
  PROVE  Judged'
<1>1. setup' = setup
  BY SetupStays
<1>2. ASSUME NEW r \in Runs, phase'[r] = "refused"
      PROVE  ~(Supported /\ ExtAllowed)
  <2>1. CASE phase[r] = "refused"
    BY <2>1 DEF Judged
  <2>2. CASE phase[r] # "refused"
    <3>1. PICK q \in Runs : SessionStep(q)
      BY <1>2, <2>2 DEF SessionNext, sessionVars, session, Killed, Fetch, DeleteBranch
    <3>2. Check(q)
      BY <1>2, <2>2, <3>1 DEF SessionInv, SessionTypeOK, SessionStep, Prepare, Register, Script,
         ShowRef, ScriptFails, CloneBranch, CloneHead, Switch, Commit, CommandEnds,
         Unregister, Enter, session
    <3>3. QED
      BY <1>2, <2>2, <3>2 DEF Check, Enter, SessionInv, SessionTypeOK
  <2>3. QED
    BY <2>1, <2>2
<1>3. QED
  BY <1>1, <1>2, ChecksStay DEF Judged

\* A session starts where the ext transport serves the user's URLs only, and
\* none is refused for its transport where that is so, for all configurations
\* of git in all its scopes.
THEOREM TransportChecked == SessionSpec => []ExtPolicySound
<1>1. SessionInit => Judged
  BY DEF SessionInit, Judged
<1>2. SessionInv /\ Judged => ExtPolicySound
  BY CheckIsGits DEF SessionInv, Judged, ExtPolicySound
<1>3. QED
  BY <1>1, <1>2, NextJudged, SessionInvariant, PTL DEF SessionSpec
=============================================================================
