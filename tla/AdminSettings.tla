--------------------------- MODULE AdminSettings ---------------------------
(***************************************************************************)
(* Settings of the server and the Admin page that edits them.  A setting   *)
(* comes from the process environment, an explicit dotenv file, the dotenv *)
(* file of the working directory, or a default; the page shows what it     *)
(* believes is effective, saves the whole file, and the running server     *)
(* takes the new settings at once or restarts.  Four settings stand for    *)
(* the kinds of the page: the auth token (dotenv files win over the        *)
(* process, a change needs a restart), an ordinary number (the template of *)
(* the page is not the default of the server), a pool of credentials,      *)
(* which the page sees as tokens, and one whose name has been retired.     *)
(* Those the page does not know are left out: an apply leaves them to the  *)
(* process and their defaults, whatever the files say, until a restart.    *)
(***************************************************************************)
EXTENDS SequencesExt, Naturals

CONSTANTS Unset, MaxSaves

Setting == {"auth", "rate", "pool", "renamed"}
Pools == {<<>>, <<1>>, <<1, 2>>}

VARIABLES
  process, explicit,  \* the environment and the file FCC_ENV_FILE names
  env,                \* the dotenv file the server and the page share
  retired,            \* the setting that file has under its old name
  running,            \* settings of the current provider generation
  due,                \* a restart was announced and has not happened
  saves

settingsVars == <<process, explicit, env, retired, running, due, saves>>

Template == [auth |-> "freecc", rate |-> "template", pool |-> <<>>, renamed |-> ""]
Default == [auth |-> "", rate |-> "default", pool |-> <<>>, renamed |-> ""]
\* The template gives every setting a value; an empty one is a value.
ASSUME SettingsAssumption == \A s \in Setting : Template[s] # Unset
Needs == {"auth"}   \* changes that need a restart
Nowhere == [s \in Setting |-> Unset]

\* The first of the sources, best first, that has the setting.
FirstOf(a, b) == IF a # Unset THEN a ELSE b

\* What the settings loader makes of the sources, given the dotenv file.
Dotenv(file, s) == FirstOf(explicit[s], file[s])
Prefers(s, dotenv, otherwise) == IF s = "auth" THEN FirstOf(dotenv, otherwise) ELSE otherwise
Effective(file) ==
  [s \in Setting |->
     Prefers(s, Dotenv(file, s), FirstOf(process[s], FirstOf(Dotenv(file, s), Default[s])))]

\* What the page takes for it (load_value_state).
Locked(s) == process[s] # Unset \/ explicit[s] # Unset
ValueState == [s \in Setting |-> FirstOf(process[s], FirstOf(Dotenv(env, s), Template[s]))]

-----------------------------------------------------------------------------
(* A save.  An edit gives a setting a new value; a masked secret gives it   *)
(* none.  The edit of a pool names keys kept by their place in the stored  *)
(* pool, and adds new ones.                                                *)

Kept(i) == [token |-> i]
Added(k) == [key |-> k]
PoolEdits == {<<Kept(1)>>, <<Kept(2), Kept(1)>>, <<Kept(2), Added(3)>>}
Edits == [auth : {Unset, "new"}, rate : {Unset, "new"}, pool : PoolEdits \cup {Unset}]

\* A token of no stored key is dropped.
ResolvePool(edit, stored) ==
  FoldLeft(LAMBDA keys, e :
             IF "key" \in DOMAIN e THEN Append(keys, e.key)
             ELSE IF e.token \in DOMAIN stored THEN Append(keys, stored[e.token]) ELSE keys,
           <<>>, edit)

\* The submitted value of a setting, or that it is not to change.
Edited(edits, s) ==
  IF s = "renamed" \/ Locked(s) THEN Unset
  ELSE IF edits[s] = Unset THEN Unset
  ELSE IF s = "pool" THEN ResolvePool(edits[s], ValueState[s]) ELSE edits[s]

\* The complete file to write: the template, over it what the file has, over
\* it the edits.  What is locked is left as the file has it.
Target(edits) == [s \in Setting |-> FirstOf(Edited(edits, s), FirstOf(env[s], Template[s]))]

\* Mutant of Prepared: the values to write are taken over as they are.
PreparedTarget(target) == target

\* Settings built from the values to write, the locked ones from their source,
\* and the auth token from the dotenv file as it is before the write.
Prepared(target) ==
  [s \in Setting |-> Prefers(s, Dotenv(env, s), IF Locked(s) THEN ValueState[s] ELSE target[s])]

Pending(edits) ==
  {s \in Needs : Edited(edits, s) # Unset /\ Edited(edits, s) # ValueState[s]}

-----------------------------------------------------------------------------
SettingsInit ==
  /\ \E s \in Setting \ {"renamed"} :
       /\ process \in {Nowhere, [Nowhere EXCEPT ![s] = IF s = "pool" THEN <<9>> ELSE "process"]}
       /\ explicit \in {Nowhere, [Nowhere EXCEPT ![s] = IF s = "pool" THEN <<8>> ELSE "explicit"]}
  /\ env \in [auth : {Unset, "old"}, rate : {Unset, "old"}, pool : Pools \cup {Unset}, renamed : {Unset, "old"}]
  /\ retired \in {Unset, "older"}
  /\ running = Nowhere
  /\ due = TRUE /\ saves = 0

\* A start migrates the file, unless the new name is taken, and loads it.
Migrated == IF env["renamed"] = Unset THEN [env EXCEPT !["renamed"] = retired] ELSE env
Boots ==
  /\ due /\ due' = FALSE
  /\ env' = Migrated
  /\ retired' = IF env["renamed"] = Unset THEN Unset ELSE retired
  /\ running' = Effective(Migrated)
  /\ UNCHANGED <<process, explicit, saves>>

\* Apply is one at a time; if the settings refuse a value, or the write fails,
\* nothing changes.  Names the manifest does not know are not written.
Saves(edits) ==
  /\ running # Nowhere /\ saves < MaxSaves
  /\ saves' = saves + 1
  /\ env' = Target(edits) /\ retired' = Unset
  /\ IF Pending(edits) # {} THEN due' = TRUE /\ UNCHANGED running
     ELSE running' = Prepared(Target(edits)) /\ UNCHANGED due
  /\ UNCHANGED <<process, explicit>>

SettingsNext ==
  \/ Boots
  \/ \E edits \in Edits : Saves(edits)

SettingsSpec == SettingsInit /\ [][SettingsNext]_settingsVars

-----------------------------------------------------------------------------
(* Of the settings the page knows, the running server uses what a restart  *)
(* would load, whatever was saved and taken over at once, unless a restart *)
(* is due - but for an auth token of the process too (application.py       *)
(* apply_admin_config, persistence.py prepare_admin_update, settings.py).  *)
RunningIsEffective ==
  ~due => \A s \in Setting :
    running[s] = Effective(env)[s] \/ (s = "auth" /\ process[s] # Unset)
=============================================================================
