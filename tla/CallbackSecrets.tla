--------------------------- MODULE CallbackSecrets ---------------------------
(***************************************************************************)
(* A callback state and the secret of its OAuth client, which is kept in   *)
(* another store under a reference that the state names. The secret is     *)
(* stored first. An answer of a store may be lost, with or without the     *)
(* change it was asked for. Both expire at one moment, after the states    *)
(* considered here. A secret is named after the call that stored it.       *)
(***************************************************************************)
EXTENDS ServerProcess

CONSTANTS
  States,    \* the state parameters; a caller may give one that is in use
  NoCall

ASSUME StatesAssumption == NoCall \notin Calls

VARIABLES
  stage,     \* of storeOAuthCallbackState
  param,     \* the state parameter of a call
  refs,      \* the calls whose client has a secret
  secrets,   \* the calls whose secret is stored
  callback,  \* the call whose callback state is stored under a parameter
  taking,    \* the calls whose state has been consumed and their secret is still to be taken
  lost       \* history: the calls on behalf of which a store has failed to answer

secretVars == <<stage, param, refs, secrets, callback, taking, lost>>

SecretsTypeOK ==
  /\ stage \in [Calls -> {"none", "putting", "creating", "unsure", "undoing", "stored", "refused"}]
  /\ param \in [Calls -> States]
  /\ refs \subseteq Calls /\ secrets \subseteq refs
  /\ taking \subseteq refs /\ lost \subseteq Calls
  /\ callback \in [States -> Calls \cup {NoCall}]

SecretsInit ==
  /\ stage = [c \in Calls |-> "none"]
  /\ param \in [Calls -> States]
  /\ refs = {}
  /\ secrets = {} /\ taking = {} /\ lost = {}
  /\ callback = [s \in States |-> NoCall]

GoesOn(c, to) == stage' = [stage EXCEPT ![c] = to]

PutSecret(c) ==
  /\ stage[c] = "putting"
  /\ \/ GoesOn(c, "creating") /\ UNCHANGED <<refs, secrets, lost>>
     \/ /\ refs' = refs \cup {c}
        /\ \/ GoesOn(c, "creating") /\ secrets' = secrets \cup {c} /\ UNCHANGED lost
           \/ GoesOn(c, "refused") /\ UNCHANGED <<secrets, lost>>
           \/ GoesOn(c, "refused") /\ secrets' \in {secrets, secrets \cup {c}}
              /\ lost' = lost \cup {c}
  /\ UNCHANGED <<param, callback, taking>>

Stores(c) == callback' = [callback EXCEPT ![param[c]] = c]

\* sessions.create: done, refused because there is one, or failed, done or not.
CreateState(c) ==
  /\ stage[c] = "creating"
  /\ \/ callback[param[c]] = NoCall /\ Stores(c)
        /\ (GoesOn(c, "stored") \/ GoesOn(c, "unsure"))
     \/ callback[param[c]] # NoCall /\ GoesOn(c, IF c \in refs THEN "undoing" ELSE "refused")
        /\ UNCHANGED callback
     \/ GoesOn(c, "unsure") /\ UNCHANGED callback
  /\ UNCHANGED <<param, refs, secrets, taking, lost>>

\* removeDefinitelyOrphanedSecret, when it has asked for the state; one it could not read is
\* taken for one that has not been stored.
ReadStateHopefully(c) ==
  /\ stage[c] = "unsure"
  /\ \E readable \in BOOLEAN :
       /\ GoesOn(c, IF c \in refs /\ (readable => callback[param[c]] # c)
                    THEN "undoing" ELSE "refused")
       /\ lost' = IF readable THEN lost ELSE lost \cup {c}
  /\ UNCHANGED <<param, refs, secrets, callback, taking>>

\* removeDefinitelyOrphanedSecret, when it has asked for the state: only one that it could
\* read and that does not name the secret leaves it an orphan.
ReadState(c) ==
  /\ stage[c] = "unsure"
  /\ \E readable \in BOOLEAN :
       /\ GoesOn(c, IF c \in refs /\ readable /\ callback[param[c]] # c
                    THEN "undoing" ELSE "refused")
       /\ lost' = IF readable THEN lost ELSE lost \cup {c}
  /\ UNCHANGED <<param, refs, secrets, callback, taking>>

\* take, which may fail.
TakeSecret(c) ==
  \/ secrets' = secrets \ {c} /\ UNCHANGED lost
  \/ lost' = lost \cup {c} /\ UNCHANGED secrets

UndoSecret(c) ==
  /\ stage[c] = "undoing"
  /\ TakeSecret(c) /\ GoesOn(c, "refused")
  /\ UNCHANGED <<param, refs, callback, taking>>

\* consumeOAuthCallbackState, by the exchange of a code: not before the start has answered
\* that gave the state out.
ConsumeState(s) ==
  /\ callback[s] # NoCall /\ stage[callback[s]] \in {"stored", "refused"}
  /\ callback' = [callback EXCEPT ![s] = NoCall]
  /\ taking' = IF callback[s] \in refs THEN taking \cup {callback[s]} ELSE taking
  /\ UNCHANGED <<stage, param, secrets, refs, lost>>

TakeConsumed(c) ==
  /\ c \in taking
  /\ taking' = taking \ {c}
  /\ TakeSecret(c)
  /\ UNCHANGED <<stage, param, callback, refs>>

-----------------------------------------------------------------------------

Named == ({callback[s] : s \in States} \cap refs) \cup taking

Working == {c \in Calls : stage[c] \in {"putting", "creating", "unsure", "undoing"}}

\* A callback state that is stored, or that an exchange has consumed, has the secret it names,
\* whatever became of the call that stored it; and a secret that no state names and no call
\* is about to name or to remove is there only because a store has failed to answer.
SecretsFollowStates ==
  /\ Named \subseteq secrets
  /\ secrets \subseteq Named \cup Working \cup lost
=============================================================================
