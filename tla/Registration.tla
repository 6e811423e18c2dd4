---------------------------- MODULE Registration ----------------------------
(***************************************************************************)
(* The registration of NetShare: AuthService keeps the users in a table    *)
(* of the database, the trial user among them, and compares the hardware   *)
(* of the registered one with that of the machine.  Until somebody is      *)
(* registered the register page stays open at every start.                 *)
(*                                                                         *)
(* Registration codes are taken to be right: what they prove and how       *)
(* debuggers are noticed is left out, and so are calls that change         *)
(* nothing.                                                                *)
(***************************************************************************)
EXTENDS Naturals, SequencesExt

CONSTANTS
  Names,     \* names that the user may register
  Machines,  \* the hardware: board, bios, cpu and mac
  MaxUsers   \* bound on the rows of the table

TrialName == "TrialUser"

ASSUME RegistrationAssumption ==
  /\ TrialName \notin Names
  /\ MaxUsers \in Nat \ {0}

VARIABLES
  users,    \* the table, by id
  machine,  \* the hardware of this machine, from which its id is made
  token,    \* m_tokenValid
  asking    \* the register page is open

authVars == <<users, machine, token, asking>>

User == [name : Names \cup {TrialName}, machine : Machines, trial : BOOLEAN]

AuthTypeOK ==
  /\ users \in Seq(User) /\ Len(users) <= MaxUsers
  /\ machine \in Machines
  /\ token \in BOOLEAN /\ asking \in BOOLEAN

AuthInit ==
  /\ users = <<>>
  /\ machine \in Machines
  /\ token = FALSE /\ asking = FALSE

isRegistered == \E u \in Range(users) : ~u.trial

isTrialMode == ~isRegistered /\ \E u \in Range(users) : u.trial

\* The weights of the components that are the same.
matchScore(m) ==
  LET weight == [board |-> 40, bios |-> 20, cpu |-> 20, mac |-> 20]
      same(c) == IF m[c] = machine[c] THEN weight[c] ELSE 0
  IN  same("board") + same("bios") + same("cpu") + same("mac")

\* The first registered user counts, zero is none.
FirstRegistered == SelectInSeq(users, LAMBDA u : ~u.trial)

verifyMachineMatch ==
  FirstRegistered # 0 /\ matchScore(users[FirstRegistered].machine) >= 60

\* The register page opens when the window is ready.
AsksAtStart == ~isRegistered \/ ~verifyMachineMatch

-----------------------------------------------------------------------------
\* Mutant: the token is made at the next start.
MutGenerateToken == token' = token

generateSecurityToken == token' = TRUE

TrialOfMachine == SelectInSeq(users, LAMBDA u : u.trial /\ u.machine = machine)

\* A row of the trial user becomes that of the registered one.
registerUser(name) ==
  /\ asking
  /\ \A u \in Range(users) : u.name # name
  /\ LET user == [name |-> name, machine |-> machine, trial |-> FALSE]
     IN  IF TrialOfMachine # 0
           THEN users' = [users EXCEPT ![TrialOfMachine] = user]
           ELSE Len(users) < MaxUsers /\ users' = Append(users, user)
  /\ generateSecurityToken
  /\ asking' = FALSE
  /\ UNCHANGED machine

\* Names are unique: the trial user of another machine is in the way.
enterTrialMode ==
  /\ asking
  /\ \/ /\ \E u \in Range(users) : u.machine = machine
        /\ UNCHANGED users
     \/ /\ \A u \in Range(users) : u.machine # machine /\ u.name # TrialName
        /\ Len(users) < MaxUsers
        /\ users' = Append(users, [name |-> TrialName, machine |-> machine, trial |-> TRUE])
  /\ generateSecurityToken
  /\ asking' = FALSE
  /\ UNCHANGED machine

\* The server goes on.
clearRegistration ==
  /\ isRegistered
  /\ users' = <<>>
  /\ token' = FALSE
  /\ UNCHANGED <<machine, asking>>

openRegister ==
  /\ ~isRegistered
  /\ asking' = TRUE
  /\ UNCHANGED <<users, machine, token>>

\* Another part is put into the machine while it is off.
Rebuild(m) ==
  /\ machine' = m
  /\ UNCHANGED <<users, token, asking>>

-----------------------------------------------------------------------------
(* Properties; both fail when the machine changes, see the README. *)

\* The user can always go on with a trial (the button of the register page).
TrialIsPossible ==
  asking => \/ \E u \in Range(users) : u.machine = machine
            \/ \A u \in Range(users) : u.name # TrialName

\* Who registered on this machine is not asked again.
RegisteredIsKnown ==
  (\E u \in Range(users) : ~u.trial /\ u.machine = machine) => ~AsksAtStart
=============================================================================
