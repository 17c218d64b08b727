------------------------------- MODULE Volume ------------------------------
(***************************************************************************)
(* firmware/src/storage/volume_marker.c and storage_init: which volume the *)
(* firmware has mounted, and what it may do to it; and the factory image,  *)
(* firmware/factory/src/main.c, that creates one.                          *)
(***************************************************************************)
EXTENDS Files

VARIABLES
  build,          \* the build options of the images, [method, opts]
  op,             \* what the processor is doing; "off" without power
  mounted,        \* the file system is mounted
  volume_state    \* static enum storage_volume_state volume_state

MAY_FORMAT    == "MAY_FORMAT" \in build.opts    \* CANTIL_STORAGE_MAY_FORMAT: there is mkfs
MARKER_ADOPT  == "MARKER_ADOPT" \in build.opts  \* CONFIG_CANTIL_VOLUME_MARKER_ADOPT
FACTORY_FORCE == "FACTORY_FORCE" \in build.opts \* CONFIG_CANTIL_FACTORY_FORCE

MarkerPath == <<"root", "marker">>
FsPath     == <<"root", "fs">>
CaKeyPath  == <<"keys", "key">>    \* /keys/0/key.bin

VolumeStates == {"VALID", "UNMARKED", "MISMATCH"}

\* A marker is the one this build would write ("ours") or one that differs in a
\* field or its checksum ("other"); an empty one is too short.
marker_check ==
  IF disk[MarkerPath] = None THEN "UNMARKED"
  ELSE IF disk[MarkerPath] = "ours" THEN "VALID" ELSE "MISMATCH"

\* Never overwrites: a marker that is there, torn or foreign, stays.
storage_volume_marker_write ==
  IF Exists(MarkerPath) THEN <<>> ELSE <<Put(MarkerPath, "ours")>>

storage_volume_trusted == volume_state # "MISMATCH"
MayMint(state) ==
  \/ state = "VALID"
  \/ state = "UNMARKED" /\ Exists(CaKeyPath)
storage_volume_may_mint == MayMint(volume_state)

\* fs_mount: fails on a volume that holds no file system, and may fail on one
\* that does; an error can also be about the call or the device.
fs_mount(ret) ==
  CASE ret = "ok"      -> Exists(FsPath) /\ UNCHANGED nfaults
    [] ret = "corrupt" -> IF Exists(FsPath) THEN Fault ELSE UNCHANGED nfaults
    [] OTHER           -> Fault

\* storage_init up to the mount; what cannot be mounted is formatted by a build
\* that can, unless the error says nothing about the file system.
storage_init ==
  /\ op = "off"
  /\ \E ret \in {"ok", "corrupt", "EINVAL", "ENODEV"} :
       LET format == ret = "corrupt" /\ MAY_FORMAT IN
       /\ fs_mount(ret)
       /\ todo' = IF format THEN mkfs ELSE <<>>
       /\ mounted' = (ret = "ok" \/ format)
       /\ op' = IF mounted' THEN "verify" ELSE "no_storage"
  /\ failed' = FALSE
  /\ UNCHANGED <<disk, volume_state, unnoticed>>

\* storage_init after it.
storage_volume_verify ==
  /\ op = "verify" /\ todo = <<>>
  /\ IF failed
     THEN op' = "no_storage" /\ mounted' = FALSE /\ UNCHANGED <<volume_state, fvars>>
     ELSE /\ volume_state' = marker_check
          /\ Run(IF marker_check = "UNMARKED" /\ MARKER_ADOPT
                 THEN storage_volume_marker_write ELSE <<>>)
          /\ op' = "verified"
          /\ UNCHANGED mounted

\* The state is only raised by a marker that was written in full.
AdoptedState ==
  IF MARKER_ADOPT /\ volume_state = "UNMARKED" /\ ~failed THEN "VALID" ELSE volume_state
-----------------------------------------------------------------------------
\* The factory image: formats what does not mount, refuses everything else
\* unless it was built to overrule that.
factory_main ==
  /\ op = "off"
  /\ \E ret \in {"ok", "corrupt", "EINVAL", "ENODEV"} :
       /\ fs_mount(ret)
       /\ todo' = IF ret \in {"corrupt", "EINVAL"} \/ (ret = "ok" /\ FACTORY_FORCE)
                  THEN mkfs \o <<Put(MarkerPath, "ours")>> ELSE <<>>
  /\ op' = "factory"
  /\ failed' = FALSE
  /\ UNCHANGED <<disk, mounted, volume_state, unnoticed>>

\* Its verdict is a light; the operator takes the power away.
factory_park ==
  /\ op = "factory" /\ todo = <<>>
  /\ op' = "off"
  /\ UNCHANGED <<fvars, mounted, volume_state>>
=============================================================================
