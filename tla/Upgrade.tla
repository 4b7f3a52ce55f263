------------------------------ MODULE Upgrade ------------------------------
(***************************************************************************)
(* The versions of one installation over time: what the running process    *)
(* was built as, what the file of its binary holds, and what GitHub offers *)
(* (CheckUpdate and PerformUpdate of internal/updater/updater.go with the  *)
(* version the server keeps, srv.version).  Between an applied update and  *)
(* the restart the process still compares its own version.  Clients ask    *)
(* for one update at a time.  Service says when these steps are taken.     *)
(***************************************************************************)
EXTENDS Version

CONSTANTS Releases,  \* the releases that may be published
          None       \* no release

ASSUME ReleasesAssumption == Dev \notin Releases /\ None \notin Releases \cup {Dev}

VARIABLES running,    \* the version of the process
          installed,  \* the version of the binary on disk
          latest,     \* the latest release on GitHub
          fetched,    \* the release an update is downloading
          answer      \* the last answer to a client

upgradeVars == <<running, installed, latest, fetched, answer>>

UpgradeTypeOK == /\ running \in Releases \cup {Dev}
                 /\ installed \in Releases \cup {Dev}
                 /\ latest \in Releases
                 /\ fetched \in Releases \cup {None}
                 /\ answer \in {"none", "current", "available", "applied", "failed"}

(* The installer put any release in place, or somebody built the binary.   *)
UpgradeInit == /\ latest \in Releases
               /\ running \in Releases \cup {Dev}
               /\ installed = running
               /\ fetched = None
               /\ answer = "none"

(* The latest release is the last one published: it may be one of an       *)
(* earlier line, or an earlier one when the last is withdrawn.             *)
Publish(v) == /\ latest' = v
              /\ answer' = "none"
              /\ UNCHANGED <<running, installed, fetched>>

CheckUpdate == /\ answer' = IF IsNewerVersion(running, latest) THEN "available" ELSE "current"
               /\ UNCHANGED <<running, installed, latest, fetched>>

(* Fault: a status the protocol does not have. *)
FetchError == /\ answer' = "error"
              /\ UNCHANGED <<running, installed, latest, fetched>>

(* GetLatestRelease fails, whatever was asked for. *)
FetchFails == /\ answer' = "failed"
              /\ UNCHANGED <<running, installed, latest, fetched>>

AlreadyCurrent == /\ fetched = None
                  /\ ~IsNewerVersion(running, latest)
                  /\ answer' = "current"
                  /\ UNCHANGED <<running, installed, latest, fetched>>

StartDownload == /\ fetched = None
                 /\ IsNewerVersion(running, latest)
                 /\ fetched' = latest
                 /\ answer' = "none"
                 /\ UNCHANGED <<running, installed, latest>>

Apply == /\ fetched # None
         /\ installed' = fetched
         /\ fetched' = None
         /\ answer' = "applied"
         /\ UNCHANGED <<running, latest>>

(* No asset, no download, no replacement, or the context is done. *)
UpdateFails == /\ fetched # None
               /\ fetched' = None
               /\ answer' = "failed"
               /\ UNCHANGED <<running, installed, latest>>

(* The process ends, for the restart or for any other reason, and the      *)
(* binary on disk is started.                                              *)
Restart == /\ running' = installed
           /\ fetched' = None
           /\ answer' = "none"
           /\ UNCHANGED <<installed, latest>>

UpgradeNext == \/ \E v \in Releases : Publish(v)
               \/ CheckUpdate \/ FetchFails
               \/ AlreadyCurrent \/ StartDownload \/ Apply \/ UpdateFails
               \/ Restart

UpgradeSpec == UpgradeInit /\ [][UpgradeNext]_upgradeVars

-----------------------------------------------------------------------------
(* A process that runs what is installed never replaces it by an earlier   *)
(* release, whatever is published before, during and after the download.   *)
(* (Between an update and the restart it compares the wrong version, and   *)
(* may.)                                                                   *)
UpdateMovesForward ==
  [][running = installed /\ installed' # installed => Precedes(installed, installed')]_upgradeVars

(* updater.go: isNewerVersion "returns true if latest is newer than        *)
(* current" and "works for semver-like versions": an installation told     *)
(* that it is current is not behind the latest release.                    *)
CurrentMeansLatest == answer = "current" => ~Precedes(running, latest)
=============================================================================
