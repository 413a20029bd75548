------------------------------- MODULE System -------------------------------
(***************************************************************************)
(* The models of Platform, of the dashboard's list, drawer, columns and    *)
(* timeline, and of Menu, side by side.  They share no state: a behaviour  *)
(* is one of `part` alone, so that for TLC their states add up.            *)
(***************************************************************************)
EXTENDS Platform, Menu

CONSTANTS
    Filters, LastDay, Cleared, Pages, MaxLogins, MaxLoads,          \* Dashboard
    Calls, Legs, MaxTrail,                                             \* Drawer
    Tabs, Releases, Pinned, Sizes, MaxEdits,                          \* Columns
    Records                                                          \* Timeline

VARIABLES
    part,
    session, ended, logins, asked, loads, loading, table, error, auto,
    newest,                                                        \* Dashboard
    selected, stack, drill, lookups, strayed,                         \* Drawer
    release, stored, tab, dragged, edits,                            \* Columns
    open, segmented                                                 \* Timeline

listVars == <<session, ended, logins, asked, loads, loading, table, error, auto, newest>>
drawerVars == <<selected, stack, drill, lookups, strayed>>
columnVars == <<release, stored, tab, dragged, edits>>
timelineVars == <<open, segmented>>
platformVars == <<part, vars, bootVars, scriptVars, tokenVars, backupVars, auditVars,
                  readsVars, listVars, drawerVars, columnVars, timelineVars,
                  signInVars, sectionVars>>

-----------------------------------------------------------------------------
L == INSTANCE Dashboard WITH shown <- table

D == INSTANCE Drawer

C == INSTANCE Columns

M == INSTANCE Timeline WITH rows <- segmented

ASSUME SystemAssumption ==
    L!DashboardAssumption /\ D!TrailAssumption /\ C!ReleasesAssumption /\ M!TimelineAssumption

-----------------------------------------------------------------------------
Parts == {"rotation", "boot", "script", "token", "backups", "audit", "reads", "list",
          "drawer", "columns", "timeline", "signin", "keys", "users", "sources"}

PlatformInit ==
    /\ part \in Parts
    /\ Init /\ B!Init /\ S!Init /\ T!Init /\ U!Init /\ E!Init /\ ReadsInit /\ L!Init
    /\ D!Init /\ C!Init /\ M!Init /\ I!Init
    /\ CASE part = "users" -> V!Init
         [] part = "sources" -> W!Init /\ past = Null
         [] OTHER -> K!Init

\* The variables of all parts but one.
Others(mine) ==
    /\ UNCHANGED part
    /\ mine # "rotation" => UNCHANGED vars
    /\ mine # "boot" => UNCHANGED bootVars
    /\ mine # "script" => UNCHANGED scriptVars
    /\ mine # "token" => UNCHANGED tokenVars
    /\ mine # "backups" => UNCHANGED backupVars
    /\ mine # "audit" => UNCHANGED auditVars
    /\ mine # "reads" => UNCHANGED readsVars
    /\ mine # "list" => UNCHANGED listVars
    /\ mine # "drawer" => UNCHANGED drawerVars
    /\ mine # "columns" => UNCHANGED columnVars
    /\ mine # "timeline" => UNCHANGED timelineVars
    /\ mine # "signin" => UNCHANGED signInVars
    /\ mine \notin {"keys", "users", "sources"} => UNCHANGED sectionVars

Only(mine) == part = mine /\ Others(mine)

Rotate == Only("rotation") /\ Next
BootStep == Only("boot") /\ B!Next
ScriptStep == Only("script") /\ S!Next
TokenStep == Only("token") /\ T!Next
BackupStep == Only("backups") /\ U!Next
AuditStep == Only("audit") /\ E!Next
ReadStep == Only("reads") /\ ReadsNext
ListStep == Only("list") /\ L!Next
DrawerStep == Only("drawer") /\ D!Next
ColumnStep == Only("columns") /\ C!Next
TimelineStep == Only("timeline") /\ M!Next
SignInStep == Only("signin") /\ I!Next
KeyStep == Only("keys") /\ K!Next
UserStep == Only("users") /\ V!Next
SourceStep == Only("sources") /\ W!Next /\ UNCHANGED past

PlatformNext ==
    \/ Rotate \/ BootStep \/ ScriptStep \/ TokenStep \/ BackupStep \/ AuditStep
    \/ ReadStep \/ ListStep \/ DrawerStep \/ ColumnStep \/ TimelineStep
    \/ SignInStep \/ KeyStep \/ UserStep \/ SourceStep

\* The fairness of Boot and of ScriptRun, each for its own part.
PlatformFairness ==
    /\ \A p \in Replicas : WF_platformVars(Only("boot") /\ B!Start(p))
    /\ WF_platformVars(Only("script") /\ S!Timeout)
    /\ WF_platformVars(Only("script") /\ S!GraceEnds)
    /\ WF_platformVars(Only("script") /\ S!Data)
    /\ WF_platformVars(Only("script") /\ S!Close)

PlatformSpec == PlatformInit /\ [][PlatformNext]_platformVars /\ PlatformFairness

-----------------------------------------------------------------------------
(* Properties.                                                             *)

\* Every variable of the fifteen models has its type.
TypesOK ==
    CASE part = "rotation" -> TypeOK
      [] part = "boot" -> B!TypeOK
      [] part = "script" -> S!TypeOK
      [] part = "token" -> T!TypeOK
      [] part = "backups" -> U!TypeOK
      [] part = "audit" -> E!TypeOK
      [] part = "reads" -> ReadsTypeOK
      [] part = "list" -> L!TypeOK
      [] part = "drawer" -> D!TypeOK
      [] part = "columns" -> C!TypeOK
      [] part = "timeline" -> M!TypeOK
      [] part = "signin" -> I!TypeOK
      [] part = "keys" -> K!TypeOK
      [] part = "users" -> V!TypeOK
      [] part = "sources" -> W!TypeOK

\* Boot: losing a race at boot costs a restart, never the replica.
EveryReplicaServes == part = "boot" => B!EveryReplicaServes

\* ScriptRun: a run settles, unless a process the script left behind never ends.
EveryRunSettles == S!EveryRunSettles

\* Dashboard, Drawer, Columns, Timeline: a settled list shows what was asked for,
\* the way back through the drawer is the way taken, every column is there once
\* and nobody's defaults are stale, and a timeline's segments tile the call.
\* SignIn, KeyList, UserForms, SourceForms: the account on screen is the cookie's,
\* a new key's value stays until put away, an edit changes what was typed, and a
\* source's credential and tick are its own.
ScreenIsTrue ==
    CASE part = "list" -> L!SettledShowsAsked
      [] part = "drawer" -> D!TrailIsTheWay
      [] part = "columns" -> C!ColumnsFollowRelease
      [] part = "timeline" -> M!SegmentsTile
      [] part = "signin" -> I!SignInHolds
      [] part = "keys" -> K!KeysHold
      [] part = "users" -> V!UsersHold
      [] part = "sources" -> W!SourcesHold
      [] OTHER -> TRUE
=============================================================================
