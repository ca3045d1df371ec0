---------------------------- MODULE ProfileConfig ----------------------------
(***************************************************************************)
(* config.Unmarshal: reads the files of a directory, keeps the one of the  *)
(* master configuration and the one of the active profile, and decodes the *)
(* first into the caller's value with the second laid over it.  A value    *)
(* has one field, and a file sets it or is silent about it.                *)
(***************************************************************************)
EXTENDS Integers, Sequences, SequencesExt

CONSTANTS
  Entries,   \* the directory entries there may be
  MaxFiles   \* bound: entries of a directory

(* What getEnv makes of a name: "conf" is cs.confPrefix, the master's; a   *)
(* name without the prefix is "foreign", one that getEnv cannot slice      *)
(* "short".  What ReadFile and a decoder make of the file: a number it     *)
(* sets the field to, Silent, an empty file, a garbled one, none.          *)
Scopes   == {"conf", "dev", "test", "foreign", "short"}
Silent   == -1
Void     == -2
Garbled  == -3
Unread   == -4
Contents == {Silent, Void, Garbled, Unread} \cup Nat

ASSUME ConfigAssumption ==
  /\ Entries \subseteq [scope : Scopes, content : Contents]
  /\ MaxFiles \in Nat

VARIABLES
  cfgPc,     \* where Unmarshal is
  argument,  \* kind of v: "pointer", to what mergo can merge, "scalar", to
             \* what it refuses (a pointer, say), "value" or "nil"
  profile,   \* cs.profileActive
  decoder,   \* cs.unmarshalType: "yaml", "json" or another
  directory, \* the entries ReadDir returns, in their order
  nextEntry, \* the loop's place in them
  masterRaw, activeRaw,  \* cs.masterConfRaw, cs.activeConfRaw
  overlay,   \* v1's field
  target,    \* v's field
  outcome    \* "none", "ok", "panic" or the error returned

configVars == <<cfgPc, argument, profile, decoder, directory, nextEntry, masterRaw, activeRaw,
                overlay, target, outcome>>

Default == 3   \* what the caller put into v
Broken  == 1   \* what a garbled file sets before its error is met

ConfigInit ==
  /\ cfgPc = "idle" /\ argument = "pointer" /\ profile = "dev" /\ decoder = "yaml"
  /\ directory = <<>> /\ nextEntry = 1
  /\ masterRaw = Void /\ activeRaw = Void
  /\ overlay = 0 /\ target = Default
  /\ outcome = "none"

Inputs == <<argument, profile, decoder, directory>>
Values == <<overlay, target>>

ConfigGoto(pc) == cfgPc' = pc /\ UNCHANGED outcome
ConfigStop(what) == cfgPc' = "done" /\ outcome' = what

---------------------------------------------------------------------------
(* v is not yet looked at beyond its kind: nil passes the first test.      *)
Unmarshal ==
  /\ cfgPc = "idle"
  /\ argument' \in {"pointer", "scalar", "value", "nil"}
  /\ profile' \in {"dev", "conf"} /\ decoder' \in {"yaml", "json", "other"}
  /\ directory' \in BoundedSeq(Entries, MaxFiles)
  /\ \/ argument' = "value" /\ ConfigStop("ErrNonPointerArgument")
     \/ argument' # "value" /\ ConfigGoto("loadConf")
     \/ argument' # "value" /\ ConfigStop("ReadDir")
  /\ UNCHANGED <<nextEntry, masterRaw, activeRaw, Values>>

Entry == directory[nextEntry]
AtEntry == cfgPc = "loadConf" /\ nextEntry <= Len(directory)

Wanted(scope) == scope \in {profile, "conf"}

(* A name without the prefix, or of another profile.                       *)
SkipEntry ==
  /\ AtEntry /\ Entry.scope # "short" /\ ~Wanted(Entry.scope)
  /\ nextEntry' = nextEntry + 1
  /\ UNCHANGED <<cfgPc, outcome, Inputs, masterRaw, activeRaw, Values>>

getEnv ==
  /\ AtEntry /\ Entry.scope = "short"
  /\ ConfigStop("panic")
  /\ UNCHANGED <<Inputs, nextEntry, masterRaw, activeRaw, Values>>

ReadFile ==
  /\ AtEntry /\ Wanted(Entry.scope)
  /\ \/ /\ Entry.content = Unread /\ ConfigStop("ReadFile")
        /\ UNCHANGED <<nextEntry, masterRaw, activeRaw>>
     \/ /\ Entry.content # Unread
        /\ IF Entry.scope = profile
           THEN activeRaw' = Entry.content /\ UNCHANGED masterRaw
           ELSE masterRaw' = Entry.content /\ UNCHANGED activeRaw
        /\ nextEntry' = nextEntry + 1
        /\ UNCHANGED <<cfgPc, outcome>>
  /\ UNCHANGED <<Inputs, Values>>

(* reflect.TypeOf(v).Elem() of a nil v panics.                             *)
Loaded ==
  /\ cfgPc = "loadConf" /\ nextEntry > Len(directory)
  /\ \/ argument = "nil" /\ ConfigStop("panic")
     \/ argument # "nil" /\ ConfigGoto("active")
  /\ UNCHANGED <<Inputs, nextEntry, masterRaw, activeRaw, Values>>

---------------------------------------------------------------------------
(* Slips that the configuration is tested against: the active profile is   *)
(* decoded into v itself; a zero of the profile is laid over as well.      *)
IntoTarget(n) == target' = n /\ UNCHANGED overlay
LayAll(v, v1) == v1

---------------------------------------------------------------------------
(* fileUnmarshal: json refuses an empty file, yaml does not; an unknown    *)
(* type decodes nothing.                                                   *)
Undecodable(raw) ==
  \/ decoder # "other" /\ raw = Garbled
  \/ decoder = "json" /\ raw = Void

Decode(raw, v) == IF decoder = "other" \/ raw < 0 THEN v ELSE raw

IntoOverlay(n) == overlay' = n /\ UNCHANGED target

DecodeActive ==
  /\ cfgPc = "active"
  /\ \/ /\ Undecodable(activeRaw) /\ ConfigStop("active")
        /\ UNCHANGED Values
     \/ /\ ~Undecodable(activeRaw) /\ IntoOverlay(Decode(activeRaw, overlay))
        /\ ConfigGoto("master")
  /\ UNCHANGED <<Inputs, nextEntry, masterRaw, activeRaw>>

(* A decoder may have set the field before it met its error.               *)
DecodeMaster ==
  /\ cfgPc = "master"
  /\ \/ /\ masterRaw = Void /\ ConfigStop("MasterProfileConfNotSetError")
        /\ UNCHANGED Values
     \/ /\ masterRaw # Void /\ Undecodable(masterRaw) /\ ConfigStop("master")
        /\ \E n \in {target, Broken} : target' = n
        /\ UNCHANGED overlay
     \/ /\ masterRaw # Void /\ ~Undecodable(masterRaw) /\ ConfigGoto("merge")
        /\ target' = Decode(masterRaw, target) /\ UNCHANGED overlay
  /\ UNCHANGED <<Inputs, nextEntry, masterRaw, activeRaw>>

(* mergo.Merge with override: a field that is zero in v1 is left alone.    *)
(* It refuses what is neither struct, map nor slice, with the master's     *)
(* file decoded into it.                                                   *)
Override(v, v1) == IF v1 = 0 THEN v ELSE v1

Merge ==
  /\ cfgPc = "merge"
  /\ \/ argument = "pointer" /\ target' = Override(target, overlay) /\ ConfigStop("ok")
     \/ argument = "scalar" /\ UNCHANGED target /\ ConfigStop("ErrNotSupported")
  /\ UNCHANGED <<Inputs, nextEntry, masterRaw, activeRaw, overlay>>

ConfigNext ==
  Unmarshal \/ SkipEntry \/ getEnv \/ ReadFile \/ Loaded \/ DecodeActive \/ DecodeMaster \/ Merge

ConfigSpec == ConfigInit /\ [][ConfigNext]_configVars

---------------------------------------------------------------------------
(* The last file of a scope, in the directory's order.                     *)
LastOf(scope) ==
  LET places == { n \in DOMAIN directory : directory[n].scope = scope }
  IN  IF places = {} THEN Void
      ELSE directory[CHOOSE n \in places : \A m \in places : m <= n].content

(* When Unmarshal succeeds, the field is what the profile's last file sets *)
(* it to, unless that is zero; else what the master's last file says; else *)
(* what it was.  Other profiles, their errors included, play no part, and  *)
(* a profile of the prefix's name can never succeed.                       *)
ProfileWins ==
  outcome = "ok" =>
    LET active == Decode(LastOf(profile), 0)
        master == Decode(LastOf("conf"), Default)
    IN  /\ profile # "conf" /\ LastOf("conf") # Void
        /\ target = (IF active # 0 THEN active ELSE master)

(* A load that fails leaves nothing of the active profile in the caller's  *)
(* value.  Only the master's file can have changed it: one that fails in   *)
(* the middle may leave half of itself there, and one that mergo is not    *)
(* able to merge with leaves the whole of itself (config.go:66, 70).       *)
FailureLeavesNoProfile ==
  /\ outcome = "master" => LastOf("conf") = Garbled /\ target \in {Default, Broken}
  /\ outcome = "ErrNotSupported" => target = Decode(LastOf("conf"), Default)
  /\ outcome \notin {"none", "ok", "master", "ErrNotSupported"} => target = Default
==============================================================================
