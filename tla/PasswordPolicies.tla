-------------------------- MODULE PasswordPolicies --------------------------
(***************************************************************************)
(* Password policies: password_policies, the environments each is assigned *)
(* to (password_policy_environments, UNIQUE on the environment) and the    *)
(* policy selected for administrators (site_settings).  A save (create and *)
(* update in services/password-policy.service.ts) checks against what it   *)
(* reads, writes the row, and then replaces the assignments in one batch.  *)
(***************************************************************************)
EXTENDS Naturals, FiniteSets

CONSTANTS
    Policy,         \* identifiers of policies
    Environment,
    Length,         \* the lengths a policy may ask for
    NewRules,       \* the rules a creation may ask for
    RulePatch,      \* the changes of rules an update may ask for
    PolicySaver     \* saves in flight at the same time

ASSUME LengthAssumption == Length \subseteq Nat \ {0}

ASSUME PolicyAssumption == "none" \notin Policy

Keep == 0

\* max: Keep, or a new bound, where NoMax removes it.
NoMax == 1 + CHOOSE n \in Length : \A m \in Length : m <= n

ASSUME RulesAssumption ==
    /\ NewRules \subseteq [min : Length, max : Length \cup {0}]
    /\ RulePatch \subseteq [min : Length \cup {Keep}, max : Length \cup {Keep, NoMax}]

VARIABLES
    bounds,         \* bounds[p]: the lengths a policy allows, max 0 if none
    issued,         \* identifiers that have been drawn
    assigned,       \* assigned[e]: the policy of an environment
    adminPolicy,
    policySave,     \* policySave[s]: the call a save makes next, its patch, and
                    \* whether it has overlapped no other save of its policy
    crossed         \* history: policies whose last update overlapped another

policyVars == <<bounds, issued, assigned, adminPolicy, policySave, crossed>>

NoBounds == [min |-> 0, max |-> 0]

NoPolicySave == [pc |-> "idle", policy |-> "none", min |-> Keep, max |-> Keep,
                 envs |-> {}, alone |-> TRUE]

Existing == {p \in Policy : bounds[p] # NoBounds}

SavesOf(p) == {s \in PolicySaver : policySave[s].policy = p}

PoliciesTypeOK ==
    /\ bounds \in [Policy -> [min : Length, max : Length \cup {0}] \cup {NoBounds}]
    /\ issued \in SUBSET Policy /\ Existing \subseteq issued
    /\ assigned \in [Environment -> Existing \cup {"none"}]
    /\ adminPolicy \in Existing \cup {"none"}
    /\ policySave \in [PolicySaver ->
           [pc : {"idle", "insert", "update", "assign", "select"},
            policy : Policy \cup {"none"}, min : Length \cup {Keep},
            max : Length \cup {Keep, NoMax}, envs : SUBSET Environment,
            alone : BOOLEAN]]
    /\ crossed \in SUBSET Policy

PoliciesInit ==
    /\ bounds = [p \in Policy |-> NoBounds] /\ issued = {}
    /\ assigned = [e \in Environment |-> "none"] /\ adminPolicy = "none"
    /\ policySave = [s \in PolicySaver |-> NoPolicySave]
    /\ crossed = {}

\* The row after a patch; a row that has gone stays gone.
PatchedBounds(b, min, max) ==
    IF b = NoBounds THEN NoBounds
    ELSE [min |-> IF min = Keep THEN b.min ELSE min,
          max |-> CASE max = Keep -> b.max [] max = NoMax -> 0 [] OTHER -> max]

Fit(b) == b.max # 0 => b.min <= b.max

\* Broken variant: only the bounds of the patch are compared.
ValidPatch(b, min, max) == min # Keep /\ max \notin {Keep, NoMax} => min <= max

\* validateRules, against the patch merged with the row that was read.
ValidRules(b, min, max) == Fit(PatchedBounds(b, min, max))

\* findEnvironmentConflict.
Unclaimed(envs, p) == \A e \in envs : assigned[e] \in {p, "none"}

SaveStarted(s, save) ==
    [t \in PolicySaver |->
        IF t = s THEN [save EXCEPT !.alone = SavesOf(save.policy) = {}]
        ELSE [policySave[t] EXCEPT !.alone = @ /\ policySave[t].policy # save.policy]]

\* A new random id: which of the unused ones makes no difference.
FreshPolicy == {p \in Policy \ issued : p = CHOOSE x \in Policy : x \notin issued}

BeginCreate(s, p, b, envs) ==
    /\ policySave[s].pc = "idle" /\ p \in FreshPolicy
    /\ Fit(b) /\ Unclaimed(envs, p)
    /\ issued' = issued \cup {p}
    /\ policySave' = SaveStarted(s, [NoPolicySave EXCEPT !.pc = "insert", !.policy = p,
                                     !.min = b.min, !.max = b.max, !.envs = envs])
    /\ UNCHANGED <<bounds, assigned, adminPolicy, crossed>>

\* The rules of the patch are not used again.
ToAssign(save) == [save EXCEPT !.pc = "assign", !.min = Keep, !.max = Keep]

InsertPolicy(s) ==
    LET p == policySave[s].policy IN
    /\ policySave[s].pc = "insert"
    /\ bounds' = [bounds EXCEPT ![p] = [min |-> policySave[s].min, max |-> policySave[s].max]]
    /\ policySave' = [policySave EXCEPT ![s] =
                         IF @.envs = {} THEN NoPolicySave ELSE ToAssign(@)]
    /\ UNCHANGED <<issued, assigned, adminPolicy, crossed>>

BeginUpdate(s, p, patch, envs) ==
    /\ policySave[s].pc = "idle" /\ p \in Existing
    /\ ValidRules(bounds[p], patch.min, patch.max) /\ Unclaimed(envs, p)
    /\ policySave' = SaveStarted(s, [NoPolicySave EXCEPT !.pc = "update", !.policy = p,
                                     !.min = patch.min, !.max = patch.max,
                                     !.envs = envs])
    /\ UNCHANGED <<bounds, issued, assigned, adminPolicy, crossed>>

UpdatePolicy(s) ==
    LET save == policySave[s] IN
    /\ save.pc = "update"
    /\ bounds' = [bounds EXCEPT ![save.policy] = PatchedBounds(@, save.min, save.max)]
    /\ crossed' = IF save.alone THEN crossed \ {save.policy} ELSE crossed \cup {save.policy}
    /\ policySave' = [policySave EXCEPT ![s] = ToAssign(@)]
    /\ UNCHANGED <<issued, assigned, adminPolicy>>

\* The batch is refused as a whole when an environment is another policy's by
\* now (UNIQUE) or the policy has gone (FOREIGN KEY).
Assignable(envs, p) == envs # {} => p \in Existing /\ Unclaimed(envs, p)

\* setEnvironments.
AssignEnvironments(s) ==
    LET save == policySave[s] IN
    /\ save.pc = "assign"
    /\ IF Assignable(save.envs, save.policy)
       THEN assigned' = [e \in Environment |->
                            CASE e \in save.envs -> save.policy
                              [] e \notin save.envs /\ assigned[e] = save.policy -> "none"
                              [] OTHER -> assigned[e]]
       ELSE UNCHANGED assigned
    /\ policySave' = [policySave EXCEPT ![s] = NoPolicySave]
    /\ UNCHANGED <<bounds, issued, adminPolicy, crossed>>

\* The save dies, a unique name refuses its row, or it was given no list of
\* environments: what it wrote stays.
PolicySaveDies(s) ==
    /\ policySave[s].pc # "idle"
    /\ policySave' = [policySave EXCEPT ![s] = NoPolicySave]
    /\ UNCHANGED <<bounds, issued, assigned, adminPolicy, crossed>>

\* updateSiteFields: the policy selected is looked up ...
ChooseAdminPolicy(s, p) ==
    /\ policySave[s].pc = "idle" /\ p \in Existing
    /\ policySave' = [policySave EXCEPT ![s] = [NoPolicySave EXCEPT !.pc = "select",
                                                                  !.policy = p]]
    /\ UNCHANGED <<bounds, issued, assigned, adminPolicy, crossed>>

\* ... and written, unless it has gone since (FOREIGN KEY).
SelectAdminPolicy(s) ==
    /\ policySave[s].pc = "select"
    /\ adminPolicy' = IF policySave[s].policy \in Existing
                      THEN policySave[s].policy ELSE adminPolicy
    /\ policySave' = [policySave EXCEPT ![s] = NoPolicySave]
    /\ UNCHANGED <<bounds, issued, assigned, crossed>>

\* Broken variant: the assignments of a deleted policy stay.
LeftBy(p) == assigned

\* ON DELETE CASCADE.
ReleasedBy(p) == [e \in Environment |-> IF assigned[e] = p THEN "none" ELSE assigned[e]]

DeletePolicy(p) ==
    /\ p \in Existing
    /\ bounds' = [bounds EXCEPT ![p] = NoBounds]
    /\ assigned' = ReleasedBy(p)
    /\ adminPolicy' = IF adminPolicy = p THEN "none" ELSE adminPolicy
    /\ crossed' = crossed \ {p}
    /\ UNCHANGED <<issued, policySave>>

PoliciesNext ==
    \/ \E s \in PolicySaver, p \in Policy, envs \in SUBSET Environment :
          \/ \E b \in NewRules : BeginCreate(s, p, b, envs)
          \/ \E patch \in RulePatch : BeginUpdate(s, p, patch, envs)
    \/ \E s \in PolicySaver :
          \/ InsertPolicy(s) \/ UpdatePolicy(s) \/ AssignEnvironments(s)
          \/ PolicySaveDies(s) \/ SelectAdminPolicy(s)
          \/ \E p \in Policy : ChooseAdminPolicy(s, p)
    \/ \E p \in Policy : DeletePolicy(p)

PoliciesSpec == PoliciesInit /\ [][PoliciesNext]_policyVars

-----------------------------------------------------------------------------
(* Properties.                                                             *)

\* The minimum length of a policy never exceeds its maximum, unless two updates
\* of that policy overlapped: each is checked merged with a row that the other
\* was about to change.  (What the classes ask for is not compared with either.)
PolicyCanBeMet == \A p \in Existing \ crossed : Fit(bounds[p])
=============================================================================
