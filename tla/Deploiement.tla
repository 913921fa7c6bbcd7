---------------------------- MODULE Deploiement ----------------------------
(***************************************************************************)
(* What the server does when a version arrives (.cpanel.yml, then          *)
(* deploy/o2switch-deploy.sh): the migrations it names are compared with   *)
(* those the base has, each directory is removed and copied, the           *)
(* dependencies are installed, a restart is asked for.  Migrating is left  *)
(* to a person; the process may be reloaded from the disk at any time, and *)
(* the script may be cut anywhere.                                         *)
(***************************************************************************)
EXTENDS Integers, FiniteSets

CONSTANTS
  Versions,   \* commits of the branch
  Demande,    \* the migrations under prisma/migrations of each
  Depart,     \* the version installed by hand at first
  Absent      \* no version: a directory that is not there, a process that is down

ASSUME DeploiementAssumption == Depart \in Versions /\ Absent \notin Versions

VARIABLES
  tiree,      \* the version in the managed repository, $SOURCE
  rendu,      \* where the script is, "" when none runs
  base,       \* migrations that _prisma_migrations says are finished
  disque,     \* version of each directory under $APP, and of the lock
  installee,  \* version node_modules was installed for
  deployee,   \* package-lock.json.deployed
  client      \* version of the Prisma client in the process

deploiementVars == <<tiree, rendu, base, disque, installee, deployee, client>>

-----------------------------------------------------------------------------
Repertoires == {"dist", "generated", "prisma", "front", "fournees"}
Pieces == Repertoires \cup {"verrou"}
Apres == [e \in Repertoires \cup {"schema", "verrou", "node"} |->
  CASE e = "schema"    -> "dist"      [] e = "dist"     -> "generated"
    [] e = "generated" -> "prisma"    [] e = "prisma"   -> "front"
    [] e = "front"     -> "fournees"  [] e = "fournees" -> "verrou"
    [] e = "verrou"    -> "node"      [] OTHER          -> "npm"]

DeploiementInit ==
  /\ tiree = Depart /\ rendu = "" /\ base = Demande[Depart]
  /\ disque = [p \in Pieces |-> Depart]
  /\ installee = Depart /\ deployee = Depart /\ client = Depart

\* CI publishes a version, or an older one, and asks for a deployment: cPanel
\* pulls it and starts the script, one at a time.
Tirer(v) ==
  /\ rendu = "" /\ tiree' = v /\ rendu' = "schema"
  /\ UNCHANGED <<base, disque, installee, deployee, client>>

\* Mutant: `comm` failed, the list stayed empty, "up to date".
ManquantesPerdues == {}

Manquantes == Demande[tiree] \ base

\* The base may not answer, or answer nothing: the script stops too.
ControlerSchema ==
  /\ rendu = "schema"
  /\ rendu' \in IF Manquantes = {} THEN {Apres[rendu], ""} ELSE {""}
  /\ UNCHANGED <<tiree, base, disque, installee, deployee, client>>

\* remplacer: rm -rf, then cp -R, whose failure nothing looks at.
Enlever ==
  /\ rendu \in Repertoires /\ disque[rendu] # Absent
  /\ disque' = [disque EXCEPT ![rendu] = Absent]
  /\ UNCHANGED <<tiree, rendu, base, installee, deployee, client>>

Recopier ==
  /\ rendu \in Repertoires /\ disque[rendu] = Absent
  /\ disque' \in {disque, [disque EXCEPT ![rendu] = tiree]} /\ rendu' = Apres[rendu]
  /\ UNCHANGED <<tiree, base, installee, deployee, client>>

\* cp -f of package.json and of its lock.
CopierVerrou ==
  /\ rendu = "verrou" /\ rendu' = Apres[rendu]
  /\ disque' \in {disque, [disque EXCEPT !.verrou = tiree]}
  /\ UNCHANGED <<tiree, base, installee, deployee, client>>

\* nodevenv and its version: as they should be, or the script stops.
ActiverNode ==
  /\ rendu = "node" /\ rendu' \in {Apres[rendu], ""}
  /\ UNCHANGED <<tiree, base, disque, installee, deployee, client>>

\* npm install, when the lock is not the one deployed; a failure leaves the
\* old dependencies or the new ones, and stops.
InstallerNpm ==
  /\ rendu = "npm"
  /\ \/ /\ disque.verrou = deployee /\ rendu' = "redemarrer"
        /\ UNCHANGED <<installee, deployee>>
     \/ /\ disque.verrou # deployee
        /\ \/ installee' = disque.verrou /\ deployee' = disque.verrou /\ rendu' = "redemarrer"
           \/ installee' \in {installee, disque.verrou} /\ rendu' = "" /\ UNCHANGED deployee
  /\ UNCHANGED <<tiree, base, disque, client>>

\* tmp/restart.txt: Passenger reloads.
Redemarrer ==
  /\ rendu = "redemarrer" /\ rendu' = "" /\ client' = disque.generated
  /\ UNCHANGED <<tiree, base, disque, installee, deployee>>

\* The process dies, was idle, or is loaded by the next request, whatever the
\* script is doing.
Recharger ==
  /\ client' \in {Absent, disque.generated}
  /\ UNCHANGED <<tiree, rendu, base, disque, installee, deployee>>

\* The script is killed, or a directory is missing from the repository.
CouperScript ==
  /\ rendu # "" /\ rendu' = ""
  /\ UNCHANGED <<tiree, base, disque, installee, deployee, client>>

\* prisma migrate deploy over SSH, from the repository, one migration or more.
Migrer ==
  /\ \E m \in SUBSET Demande[tiree] : base' = base \cup m
  /\ UNCHANGED <<tiree, rendu, disque, installee, deployee, client>>

DeploiementNext ==
  \/ \E v \in Versions : Tirer(v)
  \/ ControlerSchema \/ Enlever \/ Recopier \/ CopierVerrou \/ ActiverNode \/ InstallerNpm
  \/ Redemarrer \/ Recharger \/ CouperScript \/ Migrer

DeploiementSpec == DeploiementInit /\ [][DeploiementNext]_deploiementVars

-----------------------------------------------------------------------------
(* Properties                                                              *)

\* The generated client never selects a column the base does not have: neither
\* the one the process runs, nor the one on disk, which it may load at any
\* moment.  Guarding the restart was not enough, "ce qu'il fallait proteger,
\* c'etait les fichiers".
SchemaFirst ==
  \A v \in {disque.generated, client} \ {Absent} : Demande[v] \subseteq base
=============================================================================
