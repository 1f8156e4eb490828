---------------------------- MODULE VehicleTypes ----------------------------
(***************************************************************************)
(* Start-up and vehicle types: OnStartUp fills an empty database with the  *)
(* default types, the documents they ask for and an administrator, one     *)
(* save after the other, before the server listens.  Administrators change *)
(* the same tables with VehicleTypeService and                             *)
(* VehicleDocumentSettingsService once it does.  A step of the start that  *)
(* throws ends the process, and the next start begins anew.                *)
(***************************************************************************)
EXTENDS Requests, Sequences

CONSTANT OtherNames   \* names and documents an administrator may add

VARIABLES
  types,      \* the rows of vehicle_type in the order of their insertion
  settings,   \* the rows of vehicle_document_settings
  admin,      \* the default administrator is registered
  boot,       \* onApplicationBootstrap: down, a step of it, or up
  cut,        \* history: a start was cut off between two default types
  touched     \* history: an administrator has changed types or settings

vehicleVars == <<types, settings, admin, boot, cut, touched>>
tables      == <<types, settings, admin>>

DefaultTypes == <<"bike", "bicycle", "van">>

DefaultSettings ==
  {<<"bike", "Vehicle Photo">>, <<"bike", "Driver License">>,
   <<"bike", "Vehicle Registration">>,
   <<"bicycle", "Vehicle Photo">>, <<"bicycle", "ID Card">>,
   <<"van", "Vehicle Photo">>, <<"van", "Driver License">>,
   <<"van", "Vehicle Registration">>, <<"van", "Insurance Certificate">>}

Names == {DefaultTypes[i] : i \in 1..3} \cup OtherNames

VehicleType == [name : Names, live : BOOLEAN]

LiveTypes == {i \in DOMAIN types : types[i].live}
TypeNamed(n) == {i \in LiveTypes : types[i].name = n}
NameUsed(n)  == \E i \in DOMAIN types : types[i].name = n     \* withDeleted, and unique

VehiclesInit ==
  /\ types = <<>> /\ settings = {} /\ admin = FALSE
  /\ boot = [pc |-> "down"] /\ cut = FALSE /\ touched = FALSE

-----------------------------------------------------------------------------
(* The start.  Nobody else uses the tables until the server listens.        *)

Boot(b) == boot' = b /\ UNCHANGED <<cut, touched, reqVars>>

Start == boot.pc = "down" /\ Boot([pc |-> "count"]) /\ UNCHANGED tables

\* mutant: a start that finds vehicle types takes everything for initialised
CountTypes_all ==
  /\ boot.pc = "count"
  /\ Boot(IF LiveTypes # {} THEN [pc |-> "admin"]
          ELSE [pc |-> "types", next |-> 1])
  /\ UNCHANGED tables

CountTypes ==
  /\ boot.pc = "count"
  /\ Boot(IF LiveTypes # {} THEN [pc |-> "settings"]
          ELSE [pc |-> "types", next |-> 1])
  /\ UNCHANGED tables

\* The search leaves deleted types out, the unique name does not: the save of a name
\* that a deleted type has throws.
InitType ==
  LET name == DefaultTypes[boot.next] IN
  /\ boot.pc = "types"
  /\ IF TypeNamed(name) = {} /\ NameUsed(name)
     THEN /\ Boot([pc |-> "down"])
          /\ UNCHANGED types
     ELSE /\ Boot(IF boot.next = 3 THEN [pc |-> "settings"]
                  ELSE [boot EXCEPT !.next = @ + 1])
          /\ types' = IF TypeNamed(name) = {}
                      THEN Append(types, [name |-> name, live |-> TRUE]) ELSE types
  /\ UNCHANGED <<settings, admin>>

\* All settings are saved in one transaction.
InitSettings ==
  /\ boot.pc = "settings"
  /\ settings' =
       IF settings = {} /\ \A i \in 1..3 : TypeNamed(DefaultTypes[i]) # {}
       THEN UNION {{[id |-> d, type |-> t, doc |-> d[2]] : t \in TypeNamed(d[1])} :
                   d \in DefaultSettings}
       ELSE settings
  /\ Boot([pc |-> "admin"])
  /\ UNCHANGED <<types, admin>>

\* The administrator is registered unless a user has the email or the mobile, but a
\* start without DEFAULT_ADMIN_EMAIL, _MOBILE and _PASSWORD throws, each time anew.
InitAdmin ==
  /\ boot.pc = "admin"
  /\ \/ admin' = TRUE /\ Boot([pc |-> "up"])
     \/ Boot([pc |-> "down"]) /\ UNCHANGED admin
  /\ UNCHANGED <<types, settings>>

\* The process is killed or deployed anew, or a query of the start throws, as the
\* registration of the administrator may.
Crash ==
  /\ boot.pc # "down" /\ faults < MaxFaults
  /\ faults' = faults + 1
  /\ req' = [c \in Clients |-> Idle]
  /\ cut' = (cut \/ (boot.pc = "types" /\ boot.next > 1))
  /\ boot' = [pc |-> "down"]
  /\ UNCHANGED <<tables, touched, calls>>

-----------------------------------------------------------------------------
(* Administrators                                                          *)

Up == boot.pc = "up" /\ UNCHANGED <<admin, boot, cut>>

\* create: the name is looked for, then inserted.
CreateType(c, n) ==
  /\ Up /\ ~NameUsed(n)
  /\ Arrive(c, [pc |-> "create", name |-> n])
  /\ UNCHANGED <<types, settings, touched>>

InsertType(c) ==
  LET n == req[c].name IN
  /\ Up /\ req[c].pc = "create"
  /\ types' = IF NameUsed(n) THEN types ELSE Append(types, [name |-> n, live |-> TRUE])
  /\ touched' = TRUE
  /\ Finish(c)
  /\ UNCHANGED settings

\* update: the type is read, a new name looked for, the entity saved.
UpdateType(c, i, n) ==
  /\ Up /\ i \in LiveTypes
  /\ Arrive(c, [pc |-> IF n = types[i].name THEN "save" ELSE "name", type |-> i, name |-> n])
  /\ UNCHANGED <<types, settings, touched>>

NameIsFree(c) ==
  /\ Up /\ req[c].pc = "name"
  /\ IF NameUsed(req[c].name) THEN Finish(c) ELSE Goto(c, "save")
  /\ UNCHANGED <<types, settings, touched>>

\* The entity was read before it was deleted, and is saved as not deleted.
SaveType(c) ==
  LET i == req[c].type
      n == req[c].name
  IN
  /\ Up /\ req[c].pc = "save"
  /\ types' = IF types[i].name # n /\ NameUsed(n) THEN types
              ELSE [types EXCEPT ![i] = [name |-> n, live |-> TRUE]]
  /\ touched' = TRUE
  /\ Finish(c)
  /\ UNCHANGED settings

\* remove and restore look for the type and change it if it is there.
RemoveType(c, i) ==
  /\ Up /\ i \in LiveTypes
  /\ Arrive(c, [pc |-> "delete", type |-> i])
  /\ UNCHANGED <<types, settings, touched>>

RestoreType(c, i) ==
  /\ Up /\ i \in DOMAIN types \ LiveTypes
  /\ Arrive(c, [pc |-> "restore", type |-> i])
  /\ UNCHANGED <<types, settings, touched>>

SoftDelete(c) ==
  /\ Up /\ req[c].pc \in {"delete", "restore"}
  /\ types' = [types EXCEPT ![req[c].type].live = (req[c].pc = "restore")]
  /\ touched' = TRUE
  /\ Finish(c)
  /\ UNCHANGED settings

\* create, update and remove of a setting; the last two read it first.
CreateSetting(i, d) ==
  /\ Up /\ i \in DOMAIN types
  /\ Instant
  /\ settings' = settings \cup {[id |-> <<calls'>>, type |-> i, doc |-> d]}
  /\ touched' = TRUE
  /\ UNCHANGED types

ChangeSetting(c, s) ==
  /\ Up /\ s \in settings
  /\ \E d \in OtherNames \cup {None} :       \* None: removed
       Arrive(c, [pc |-> "setting", old |-> s, doc |-> d])
  /\ UNCHANGED <<types, settings, touched>>

\* A setting that is gone is saved as a new one.
SaveSetting(c) ==
  LET r == req[c] IN
  /\ Up /\ r.pc = "setting"
  /\ settings' = {s \in settings : s.id # r.old.id} \cup
                 (IF r.doc = None THEN {} ELSE {[r.old EXCEPT !.doc = r.doc]})
  /\ touched' = TRUE
  /\ Finish(c)
  /\ UNCHANGED types

VehiclesNext ==
  \/ Start \/ CountTypes \/ InitType \/ InitSettings \/ InitAdmin \/ Crash
  \/ \E c \in Clients :
       \/ \E n \in OtherNames : CreateType(c, n)
       \/ \E i \in DOMAIN types :
            \/ RemoveType(c, i) \/ RestoreType(c, i)
            \/ \E n \in OtherNames \cup {types[i].name} : UpdateType(c, i, n)
       \/ InsertType(c) \/ NameIsFree(c) \/ SaveType(c) \/ SoftDelete(c)
       \/ (\E s \in settings : ChangeSetting(c, s)) \/ SaveSetting(c)
  \/ \E i \in DOMAIN types, d \in OtherNames : CreateSetting(i, d)

VehiclesSpec == VehiclesInit /\ RequestsInit /\ [][VehiclesNext]_<<vehicleVars, reqVars>>

-----------------------------------------------------------------------------
(* Properties                                                              *)

Complete ==
  /\ admin
  /\ \A i \in 1..3 : TypeNamed(DefaultTypes[i]) # {}
  /\ \A d \in DefaultSettings : \E s \in settings :
       s.doc = d[2] /\ s.type \in TypeNamed(d[1])

\* A server that listens, and whose tables no administrator has changed, has every
\* default type, setting and the administrator, however often its start was killed,
\* failed for want of DEFAULT_ADMIN_* and was repeated; except when it was killed between
\* two types: one live type makes initVehicleTypes return, so the rest and all the
\* settings are missing for good.
UpWithDefaults == boot.pc = "up" /\ ~touched /\ ~cut => Complete
=============================================================================
