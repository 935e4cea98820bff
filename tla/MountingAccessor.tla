--------------------------- MODULE MountingAccessor ---------------------------
(***************************************************************************)
(* xcp/accessor.py: MountingAccessor, a device or an NFS directory that is *)
(* mounted on a temporary directory while somebody uses it.  start() and   *)
(* finish() nest; the outermost pair mounts and unmounts.  The mount and   *)
(* umount commands (xcp/mount.py) may fail; umount always does while a     *)
(* file of the mount is open.                                              *)
(*                                                                         *)
(* A step is one command, with the calls around it.                        *)
(***************************************************************************)
EXTENDS Naturals, Sequences

CONSTANTS
  Dir,        \* the names mkdtemp() draws from
  Made,       \* how accessors are made: file system types, mount options or None
  None,
  MaxCount    \* bound: nested start()s

ASSUME MountingAssumption ==
  /\ \A m \in Made : m.types \in Seq({"iso9660", "vfat", "nfs"})
  /\ \A m \in Made :
       \/ m.options = None
       \/ /\ m.options \subseteq {"ro", "tcp"}
          /\ "ro" \in m.options \/ \A i \in DOMAIN m.types : m.types[i] # "iso9660"
  /\ None \notin Dir /\ \A opts \in SUBSET {"ro", "tcp"} : None # opts
  /\ MaxCount \in Nat \ {0}

VARIABLES
  mount_types, mount_options,  \* of the accessor; the options may grow
  read_only,
  location,
  start_count,
  pc,      \* "idle"; "mounting": start() tries file system types; or "gone"
  types,   \* those it has not tried
  dirs,    \* the temporary directories there are
  mounts,  \* what is mounted on them: type and options
  busy,    \* directories below which a file is open
  stuck    \* history: a umount failed

config == <<mount_types, read_only>>
files  == <<dirs, mounts, busy>>
vars   == <<config, mount_options, location, start_count, pc, types, files, stuck>>

-----------------------------------------------------------------------------
(* start() *)

StartFirst ==
  /\ pc = "idle" /\ start_count = 0
  /\ \E d \in Dir \ dirs : location' = d /\ dirs' = dirs \cup {d}
  /\ types' = mount_types
  /\ pc' = "mounting"
  /\ UNCHANGED <<config, mount_options, start_count, mounts, busy, stuck>>

(* Fault: "ro" is added when there is a list to add it to. *)
OptionsForList(fs) ==
  IF fs # "iso9660" \/ mount_options = None THEN mount_options ELSE mount_options \cup {"ro"}

(* The options for a file system type. *)
OptionsFor(fs) ==
  IF fs # "iso9660" THEN mount_options
  ELSE IF mount_options = None THEN {"ro"} ELSE mount_options \cup {"ro"}

(* A list of options keeps what was added to it. *)
Try ==
  /\ pc = "mounting" /\ types # <<>>
  /\ mount_options' = IF mount_options = None THEN None ELSE OptionsFor(Head(types))

MountOk ==
  /\ Try
  /\ mounts' = [d \in DOMAIN mounts \cup {location} |->
                  IF d = location THEN [fs |-> Head(types), opts |-> OptionsFor(Head(types))]
                  ELSE mounts[d]]
  /\ start_count' = 1
  /\ pc' = "idle" /\ types' = <<>>
  /\ UNCHANGED <<config, location, dirs, busy, stuck>>

MountFails ==
  /\ Try
  /\ types' = Tail(types)
  /\ UNCHANGED <<config, location, start_count, pc, files, stuck>>

(* Fault: the directory stays. *)
StartFailsDirStays ==
  /\ pc = "mounting" /\ types = <<>>
  /\ pc' = "idle"
  /\ UNCHANGED <<config, mount_options, location, start_count, types, files, stuck>>

(* Nothing can be mounted: MountException, and location stays set. *)
StartFails ==
  /\ pc = "mounting" /\ types = <<>>
  /\ dirs' = dirs \ {location}
  /\ pc' = "idle"
  /\ UNCHANGED <<config, mount_options, location, start_count, types, mounts, busy, stuck>>

StartAgain ==
  /\ pc = "idle" /\ start_count \in 1 .. MaxCount - 1
  /\ start_count' = start_count + 1
  /\ UNCHANGED <<config, mount_options, location, pc, types, files, stuck>>

-----------------------------------------------------------------------------
(* finish() *)

FinishOne ==
  /\ pc = "idle" /\ start_count > 1
  /\ start_count' = start_count - 1
  /\ UNCHANGED <<config, mount_options, location, pc, types, files, stuck>>

(* Fault: an inner finish() unmounts. *)
FinishLastAny ==
  /\ pc = "idle" /\ start_count > 0 /\ location \in Dir \ busy
  /\ start_count' = start_count - 1
  /\ mounts' = [d \in DOMAIN mounts \ {location} |-> mounts[d]]
  /\ dirs' = dirs \ {location}
  /\ location' = None
  /\ UNCHANGED <<config, mount_options, pc, types, busy, stuck>>

FinishLast ==
  /\ pc = "idle" /\ start_count = 1 /\ location \notin busy
  /\ start_count' = 0
  /\ mounts' = [d \in DOMAIN mounts \ {location} |-> mounts[d]]
  /\ dirs' = dirs \ {location}
  /\ location' = None
  /\ UNCHANGED <<config, mount_options, pc, types, busy, stuck>>

(* umount fails, which nobody looks at; rmdir() then raises OSError.  The  *)
(* mount stays, and nobody counts it any more.                             *)
FinishFails ==
  /\ pc = "idle" /\ start_count = 1
  /\ start_count' = 0
  /\ stuck' = TRUE
  /\ UNCHANGED <<config, mount_options, location, pc, types, files>>

(* __del__; an exception in it is only reported.                           *)
Del ==
  /\ pc = "idle" /\ start_count > 0
  /\ pc' = "gone"
  /\ start_count' = 0
  /\ \/ /\ location \notin busy
        /\ mounts' = [d \in DOMAIN mounts \ {location} |-> mounts[d]]
        /\ dirs' = dirs \ {location}
        /\ location' = None
        /\ UNCHANGED stuck
     \/ stuck' = TRUE /\ UNCHANGED <<mounts, dirs, location>>
  /\ UNCHANGED <<config, mount_options, types, busy>>

-----------------------------------------------------------------------------
(* openAddress() and writeFile() *)

Open ==
  /\ pc = "idle" /\ start_count > 0
  /\ busy' = busy \cup {location}
  /\ UNCHANGED <<config, mount_options, location, start_count, pc, types, dirs, mounts, stuck>>

CloseAll(d) ==
  /\ pc # "mounting" /\ d \in busy
  /\ busy' = busy \ {d}
  /\ UNCHANGED <<config, mount_options, location, start_count, pc, types, dirs, mounts, stuck>>

-----------------------------------------------------------------------------

Init ==
  /\ \E m \in Made : mount_types = m.types /\ mount_options = m.options
  /\ read_only = (mount_options # None /\ "ro" \in mount_options)
  /\ location = None /\ start_count = 0
  /\ pc = "idle" /\ types = <<>>
  /\ dirs = {} /\ mounts = <<>> /\ busy = {}
  /\ stuck = FALSE

Next ==
  \/ StartFirst \/ MountOk \/ MountFails \/ StartFails \/ StartAgain
  \/ FinishOne \/ FinishLast \/ FinishFails \/ Del
  \/ Open \/ \E d \in busy : CloseAll(d)

Spec == Init /\ [][Next]_vars

-----------------------------------------------------------------------------
(* Properties *)

FsType  == {"iso9660", "vfat", "nfs"}
OptSets == {None} \cup SUBSET {"ro", "tcp"}

(* Types of the variables. *)
TypeOK ==
  /\ mount_types \in Seq(FsType) /\ mount_options \in OptSets /\ read_only \in BOOLEAN
  /\ location \in Dir \cup {None} /\ start_count \in 0 .. MaxCount
  /\ pc \in {"idle", "mounting", "gone"} /\ types \in Seq(FsType)
  /\ dirs \subseteq Dir /\ busy \subseteq dirs
  /\ DOMAIN mounts \subseteq dirs
  /\ \A d \in DOMAIN mounts : mounts[d] \in [fs : FsType, opts : OptSets]
  /\ stuck \in BOOLEAN

(* Between any start() that returned and its finish() the medium is        *)
(* mounted where location says, whatever other users, failed attempts and  *)
(* leftovers there are.                                                    *)
MountedWhileStarted == start_count > 0 => location \in DOMAIN mounts

(* Unless a umount failed, a mount is never covered by a second one of the *)
(* same accessor, and when nobody uses it, nothing is left behind, neither *)
(* a mount nor a directory; a start() that raised left nothing.            *)
NothingLeft ==
  /\ TypeOK
  /\ ~stuck => DOMAIN mounts \subseteq {location}
  /\ pc # "mounting" /\ start_count = 0 /\ ~stuck => dirs = {} /\ DOMAIN mounts = {}

(* An accessor made read-only never mounts anything writable, and one made *)
(* writable mounts only CDs read-only, at any of its attempts.             *)
ReadOnlyAsAsked ==
  \A d \in DOMAIN mounts :
    (mounts[d].opts # None /\ "ro" \in mounts[d].opts) <=> (read_only \/ mounts[d].fs = "iso9660")

=============================================================================
