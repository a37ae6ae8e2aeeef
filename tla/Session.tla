------------------------------- MODULE Session -------------------------------
(***************************************************************************)
(* A gxBuild session: the loaded NAND (Session.active_nand), the CPU key,  *)
(* the file-system assets found for an INI, and the internal commands that *)
(* change them.                                                            *)
(*                                                                         *)
(* A caller hands over a batch of commands; it is sorted by priority and   *)
(* executed one command a step until one fails.  Callers are the command   *)
(* line (CliBuild, CliExtract), then the shell that takes its session over *)
(* (Prepare, ApplyEccNow, ExtractNow) - or, in mode "library", a user of   *)
(* the library, who makes the session himself (Session::new), with what    *)
(* keys and assets he likes, and may submit whatever batch he likes        *)
(* (Submit).                                                               *)
(*                                                                         *)
(* What a NAND skeleton holds is reduced to where its parts come from: the *)
(* dump, the INI, the ECC images laid over it, the patches applied to it.  *)
(* Whether a file can be read, parsed or applied is decided by its         *)
(* contents, which the model does not have: such a command may fail.       *)
(***************************************************************************)
EXTENDS Integers, Sequences, FiniteSets

CONSTANTS
    Images,         \* NAND dumps
    MobileImages,   \* the dumps that hold mobile data
    Eccs,           \* ECC images
    Patches,        \* patch files
    Keys,           \* CPU keys
    Layouts,        \* NAND layouts
    LayoutOf,       \* the layout of each dump and ECC image
    TargetLayout,   \* the layout of the console the session builds for
    NoFile, NoKey, NoNand, NoOutput, Torn,
    Environments,   \* command lines and data folders the program is started with
    Batches,        \* what users of the library submit
    MaxBatches      \* bound: batches a user of the library submits

Key  == Keys \cup {NoKey}
Nand == [source  : Images \cup {NoFile},    \* dump its console's own parts are from
         ini     : BOOLEAN,                 \* assembled from an INI
         layout  : Layouts,
         key     : Key,
         eccs    : SUBSET Eccs,
         patches : SUBSET Patches,
         fs      : {"none", "dump", "folder", "empty", "assets"},
         mobile  : {"none", "dump", "folder"}]

Environment ==
    [mode : {"build", "extract", "library"},
     key : Key, image : Images \cup {NoFile}, ecc : Eccs \cup {NoFile},
     addons : Seq(Patches), dump : Images \cup {NoFile}, plain_name : BOOLEAN,
     key_file : Key, mobile_file : BOOLEAN, nomobile : BOOLEAN]

\* The commands that are modelled.
Ops == {"ParseKey", "ParseKeybin", "ParseImage", "CreateImage", "ApplyEcc", "SwapBootloader",
        "ExtractStfs", "Update", "ParseIni", "ParseFlashfs", "ParsePatch", "FinalizeFlashfs",
        "FinalizeMobile", "ExtractAll", "Replace", "Clear", "ApplyOptions", "ApplyPatch",
        "ApplySmcSignature", "Compress", "Build"}

Commands ==
    {c \in [op : Ops, file : Images \cup Eccs \cup Patches \cup {NoFile}, key : Key] :
        /\ c.op = "ParseImage" => c.file \in Images
        /\ c.op = "ApplyEcc" => c.file \in Eccs
        /\ c.op = "ApplyPatch" => c.file \in Patches}

ASSUME SessionAssumption ==
    /\ MobileImages \subseteq Images
    /\ LayoutOf \in [Images \cup Eccs -> Layouts]
    /\ TargetLayout \in Layouts
    /\ NoFile \notin Images \cup Eccs \cup Patches
    /\ NoKey \notin Keys
    /\ NoNand \notin Nand
    /\ {NoOutput, Torn} \cap Nand = {}
    /\ Environments \subseteq Environment
    /\ \A cs \in Batches : cs # <<>> /\ cs \in Seq(Commands)
    /\ MaxBatches \in Nat

VARIABLES
    env,            \* the command line and the data folder; never changes
    active_nand,    \* Session.active_nand
    pending_key,    \* build_config.pending_key
    option_key,     \* build_config.options.keys.cpukey
    fs_assets,      \* build_assets.flashfs_assets: has it any file?
    output,         \* what the output path holds
    caller,         \* who submitted the batch
    queue,          \* commands of the batch still to be executed, sorted
    status,         \* "start", "running" a batch, "idle" or "exited"
    batch,          \* history: the batch as it was submitted
    applied,        \* history: the patches applied in this batch
    failed,         \* history: has a command of this batch failed?
    submitted       \* history: batches a user of the library has submitted

session  == <<active_nand, pending_key, option_key, fs_assets>>
history  == <<batch, applied, failed>>
vars     == <<env, session, output, caller, queue, status, history, submitted>>

-----------------------------------------------------------------------------
(* Commands and their order. *)

Command(op, file, key) == [op |-> op, file |-> file, key |-> key]
Plain(op)              == Command(op, NoFile, NoKey)

\* The scores, but for the two that place FinalizeFlashfs and ApplyPatch.
Scores(finalize_flashfs, apply_patch) ==
    [ParseKey |-> 160, ParseKeybin |-> 160, ParseImage |-> 150, CreateImage |-> 150,
     ApplyEcc |-> 149, SwapBootloader |-> 140, ExtractStfs |-> 110, Update |-> 110,
     ParseIni |-> 100, ParseFlashfs |-> 100, ParsePatch |-> 100,
     FinalizeFlashfs |-> finalize_flashfs, FinalizeMobile |-> 89, ExtractAll |-> 88,
     Replace |-> 87, Clear |-> 84, ApplyOptions |-> 80, ApplyPatch |-> apply_patch,
     ApplySmcSignature |-> 79, Compress |-> 78, Build |-> 0]

\* A slip: the file system is finalized before the INI replaces the NAND.
FinalizedEarly == Scores(101, 79)

\* A slip: patches go in with the images, before the INI.
PatchedEarly == Scores(90, 149)

\* InternalCommand::priority_score
priority_score == Scores(90, 79)

Score(c) == priority_score[c.op]

\* Where a command goes: behind those of a higher priority and, the sort being
\* stable, those of its own that were submitted before it.
Ahead(cs, j, i) == Score(cs[j]) > Score(cs[i]) \/ (Score(cs[j]) = Score(cs[i]) /\ j <= i)
Rank(cs, i)     == Cardinality({j \in DOMAIN cs : Ahead(cs, j, i)})

\* The batch, highest priority first.
Sorted(cs) == [k \in DOMAIN cs |-> cs[CHOOSE i \in DOMAIN cs : Rank(cs, i) = k]]

-----------------------------------------------------------------------------
(* The batch. *)

Start(who, cs) ==
    /\ caller' = who
    /\ queue' = Sorted(cs)
    /\ status' = "running"
    /\ batch' = cs
    /\ applied' = {}
    /\ failed' = FALSE

Now(op) == /\ status = "running"
           /\ Head(queue).op = op
           /\ UNCHANGED <<env, caller, batch, submitted>>

\* A slip: the end of the queue is never noticed.
SucceedUnnoticed ==
    /\ queue' = Tail(queue)
    /\ status' = status
    /\ UNCHANGED failed

Succeed ==
    /\ queue' = Tail(queue)
    /\ status' = IF Len(queue) = 1 THEN "idle" ELSE "running"
    /\ UNCHANGED failed

\* A slip: the loop logs the error and goes on.
FailOn ==
    /\ queue' = Tail(queue)
    /\ status' = IF Len(queue) = 1 THEN "idle" ELSE "running"
    /\ failed' = TRUE

\* A slip: a command that failed is tried again.
FailRetried ==
    /\ failed' = TRUE
    /\ UNCHANGED <<queue, status>>

\* The first error ends the batch; from the command line, the program as well.
Fail ==
    /\ queue' = <<>>
    /\ status' = IF caller = "cli" THEN "exited" ELSE "idle"
    /\ failed' = TRUE

EndsWith(nand) == active_nand' = nand /\ UNCHANGED <<pending_key, option_key, fs_assets>>
Quiet          == UNCHANGED <<session, output, applied>>

-----------------------------------------------------------------------------
(* Loading a NAND. *)

\* NandSkeleton::new_blank
new_blank(layout) ==
    [source |-> NoFile, ini |-> FALSE, layout |-> layout, key |-> NoKey,
     eccs |-> {}, patches |-> {}, fs |-> "none", mobile |-> "none"]

Parsed(image, key) ==
    [new_blank(LayoutOf[image]) EXCEPT
        !.source = image,
        !.key    = key,
        !.fs     = "dump",
        !.mobile = IF image \in MobileImages /\ ~env.nomobile THEN "dump" ELSE "none"]

\* A dump that cannot be read or parsed leaves the session as it was.
ParseImage ==
    LET c   == Head(queue)
        key == IF c.key # NoKey THEN c.key ELSE pending_key
    IN  /\ Now("ParseImage")
        /\ \/ Fail /\ Quiet
           \/ /\ Succeed
              /\ active_nand' = Parsed(c.file, key)
              /\ option_key' = IF option_key = NoKey THEN key ELSE option_key
              /\ UNCHANGED <<pending_key, fs_assets, output, applied>>

CreateImage ==
    /\ Now("CreateImage")
    /\ Succeed
    /\ \E layout \in Layouts : EndsWith(new_blank(layout))
    /\ UNCHANGED <<output, applied>>

\* The NAND is taken out of the session first: only a layout mismatch puts it
\* back, every other failure loses it.  What is parsed again comes from the
\* image, so patches in the skeleton's bootloaders are gone.
ApplyEcc ==
    LET ecc == Head(queue).file
        old == active_nand
    IN  /\ Now("ApplyEcc")
        /\ UNCHANGED <<output, applied>>
        /\ \/ old = NoNand /\ Succeed /\ EndsWith(NoNand)
           \/ old # NoNand /\ Fail /\ EndsWith(NoNand)
           \/ /\ old # NoNand
              /\ LayoutOf[ecc] # old.layout
              /\ Fail /\ EndsWith(old)
           \/ /\ old # NoNand
              /\ LayoutOf[ecc] = old.layout
              /\ Succeed
              /\ EndsWith([old EXCEPT !.ini = FALSE, !.patches = {},
                                      !.eccs = @ \cup {ecc}])

\* ParseKey and ParseKeybin; a key file without a key is only logged.
ParseKey ==
    LET key == Head(queue).key
    IN  /\ Now("ParseKey") \/ Now("ParseKeybin")
        /\ Succeed
        /\ pending_key' = IF key = NoKey THEN pending_key ELSE key
        /\ active_nand' = IF active_nand = NoNand \/ key = NoKey THEN active_nand
                          ELSE [active_nand EXCEPT !.key = key]
        /\ UNCHANGED <<option_key, fs_assets, output, applied>>

-----------------------------------------------------------------------------
(* Assembling it from an INI. *)

\* What replaces the NAND: a blank one of the target's layout.  It keeps the
\* CPU key (and the header's copyright) of the NAND it replaces.
fresh_target_skeleton(old) ==
    [new_blank(TargetLayout) EXCEPT
        !.source = IF old = NoNand THEN NoFile ELSE old.source,
        !.ini    = TRUE,
        !.key    = IF pending_key # NoKey \/ old = NoNand THEN pending_key ELSE old.key]

\* The NAND is taken first here as well.  An INI or a file that cannot be found
\* puts it back; once the assets are found, a failure loses it.
ParseIni ==
    /\ Now("ParseIni")
    /\ UNCHANGED <<pending_key, option_key, output, applied>>
    /\ \/ Fail /\ UNCHANGED <<active_nand, fs_assets>>
       \/ Fail /\ active_nand' = NoNand /\ fs_assets' \in BOOLEAN
       \/ Succeed /\ active_nand' = fresh_target_skeleton(active_nand) /\ fs_assets' \in BOOLEAN

\* Without a NAND, or for a folder that cannot be packed, only a message.
\* A Corona metadata failure comes after the new root is in place.
ParseFlashfs ==
    /\ Now("ParseFlashfs")
    /\ UNCHANGED <<output, applied>>
    /\ \/ Succeed /\ EndsWith(active_nand)
       \/ /\ active_nand # NoNand
          /\ Succeed \/ Fail
          /\ EndsWith([active_nand EXCEPT !.fs = "folder"])

FinalizeFlashfs ==
    /\ Now("FinalizeFlashfs")
    /\ Succeed
    /\ EndsWith(IF active_nand = NoNand THEN NoNand
                ELSE [active_nand EXCEPT !.fs = IF fs_assets THEN "assets" ELSE "empty"])
    /\ UNCHANGED <<output, applied>>

\* apply_data_folder_tier fills only the slots that have no mobile data.
FolderTier(mobile) ==
    IF mobile = "none" /\ env.mobile_file /\ ~env.nomobile THEN "folder" ELSE mobile

FinalizeMobile ==
    /\ Now("FinalizeMobile")
    /\ Succeed
    /\ EndsWith(IF active_nand = NoNand THEN NoNand
                ELSE [active_nand EXCEPT !.mobile = FolderTier(@)])
    /\ UNCHANGED <<output, applied>>

-----------------------------------------------------------------------------
(* Changing the loaded NAND. *)

\* A patch file that cannot be parsed is only logged; one that fails half way
\* may have changed some components.
ApplyPatch ==
    LET patch == Head(queue).file
        with  == [active_nand EXCEPT !.patches = @ \cup {patch}]
    IN  /\ Now("ApplyPatch")
        /\ UNCHANGED output
        /\ \/ Succeed /\ EndsWith(active_nand) /\ UNCHANGED applied
           \/ /\ active_nand # NoNand
              /\ Succeed /\ EndsWith(with) /\ applied' = applied \cup {patch}
           \/ /\ active_nand # NoNand
              /\ Fail /\ UNCHANGED applied
              /\ EndsWith(active_nand) \/ EndsWith(with)

\* sync_options_to_nand: the options' CPU key is put into the NAND first.
WithOptions(nand) == IF nand = NoNand \/ option_key = NoKey THEN nand
                     ELSE [nand EXCEPT !.key = option_key]

ApplyOptions ==
    /\ Now("ApplyOptions")
    /\ \/ Succeed
       \/ active_nand # NoNand /\ Fail
    /\ EndsWith(WithOptions(active_nand))
    /\ UNCHANGED <<output, applied>>

Clear ==
    /\ Now("Clear")
    /\ Succeed
    /\ active_nand' = NoNand
    /\ pending_key' = NoKey
    /\ fs_assets' = FALSE
    /\ UNCHANGED <<option_key, output, applied>>

\* ExtractAll writes the NAND's components to files - or a message without a
\* NAND; files that cannot be written are only logged.
ExtractAll == Now("ExtractAll") /\ Succeed /\ Quiet

\* A swap replaces one bootloader of the loaded NAND, if the file parses.
SwapBootloader ==
    /\ Now("SwapBootloader")
    /\ \/ active_nand # NoNand /\ Succeed
       \/ Fail
    /\ Quiet

ApplySmcSignature ==
    /\ Now("ApplySmcSignature")
    /\ \/ active_nand # NoNand /\ Succeed
       \/ Fail
    /\ Quiet

\* Commands that keep nothing of what is modelled here.
ReadOnly ==
    /\ Now("ExtractStfs") \/ Now("Update") \/ Now("ParsePatch")
    /\ Succeed \/ Fail
    /\ Quiet

Unfailing == (Now("Replace") \/ Now("Compress")) /\ Succeed /\ Quiet

-----------------------------------------------------------------------------
(* Building: from the data folder, whatever NAND the session holds. *)

BuildKey == IF pending_key # NoKey THEN pending_key ELSE option_key

\* Build asks for a build type and a console, which an extract session has not;
\* the configuration of a library user may have them (if not, Build fails).
CanBuild == env.mode # "extract" /\ BuildKey # NoKey /\ env.dump # NoFile

fresh_nand(assets) ==
    [new_blank(TargetLayout) EXCEPT
        !.source = env.dump,
        !.ini    = TRUE,
        !.key    = BuildKey,
        !.fs     = IF assets THEN "assets" ELSE "empty",
        !.mobile = FolderTier("none")]

\* It fails before the fresh NAND replaces the session's, or after; the file is
\* written last, and a failing write leaves it torn.
Build ==
    /\ Now("Build")
    /\ UNCHANGED <<pending_key, option_key, fs_assets, applied>>
    /\ \/ Fail /\ UNCHANGED <<active_nand, output>>
       \/ /\ CanBuild
          /\ \E assets \in BOOLEAN : active_nand' = WithOptions(fresh_nand(assets))
          /\ \/ Fail /\ output' \in {output, Torn}
             \/ Succeed /\ output' = [active_nand' EXCEPT !.key = BuildKey]

Execute == \/ ParseImage \/ CreateImage \/ ApplyEcc \/ ParseKey
           \/ ParseIni \/ ParseFlashfs \/ FinalizeFlashfs \/ FinalizeMobile
           \/ ApplyPatch \/ ApplyOptions \/ Clear \/ ExtractAll \/ SwapBootloader
           \/ ApplySmcSignature \/ ReadOnly \/ Unfailing \/ Build

-----------------------------------------------------------------------------
(* The command line: one batch. *)

load_cpu_key == IF env.key # NoKey THEN env.key ELSE env.key_file

CliImage == IF env.image # NoFile THEN env.image ELSE env.dump

\* An ECC image is only used over a dump.
CliSource ==
    IF CliImage = NoFile THEN <<Plain("CreateImage")>>
    ELSE <<Command("ParseImage", CliImage, NoKey)>> \o
         IF env.ecc = NoFile THEN <<>> ELSE <<Command("ApplyEcc", env.ecc, NoKey)>>

Addons == [i \in DOMAIN env.addons |-> Command("ApplyPatch", env.addons[i], NoKey)]

CliBatch == <<Plain("FinalizeFlashfs"), Plain("FinalizeMobile")>> \o CliSource
            \o <<Plain("ParseIni")>> \o Addons \o <<Plain("Build")>>

Exit == /\ status' = "exited"
        /\ UNCHANGED <<env, session, output, caller, queue, history, submitted>>

\* create_build: the key and the assets are looked up before the batch.
CliBuild ==
    /\ status = "start"
    /\ env.mode = "build"
    /\ \/ Exit
       \/ /\ load_cpu_key # NoKey
          /\ pending_key' = load_cpu_key
          /\ option_key' = load_cpu_key
          /\ fs_assets' \in BOOLEAN
          /\ Start("cli", CliBatch)
          /\ UNCHANGED <<env, active_nand, output, submitted>>

\* handle_extract: the key is optional, a dump is not.
CliExtract ==
    /\ status = "start"
    /\ env.mode = "extract"
    /\ \/ Exit
       \/ /\ CliImage # NoFile
          /\ pending_key' = load_cpu_key
          /\ option_key' = load_cpu_key
          /\ Start("cli", <<Command("ParseImage", CliImage, NoKey), Plain("ExtractAll")>>)
          /\ UNCHANGED <<env, active_nand, fs_assets, output, submitted>>

-----------------------------------------------------------------------------
(* The shell, and users of the library. *)

\* A slip: the dump is never looked for again.
PrepareSourceNever == <<>>

\* prepare_build loads a NAND when the session has none; a dump named just
\* "nanddump" is not on its list.
PrepareSource ==
    IF active_nand # NoNand THEN <<>>
    ELSE IF env.dump # NoFile /\ ~env.plain_name
         THEN <<Command("ParseImage", env.dump, NoKey)>>
         ELSE <<Plain("CreateImage")>>

\* A slip: the key file is read although a key is known.
PrepareKeyAlways ==
    IF env.key_file # NoKey THEN <<Command("ParseKey", NoFile, env.key_file)>> ELSE <<>>

PrepareKey ==
    IF pending_key = NoKey /\ option_key = NoKey /\ env.key_file # NoKey
    THEN <<Command("ParseKey", NoFile, env.key_file)>> ELSE <<>>

PrepareBatch == <<Plain("FinalizeFlashfs"), Plain("FinalizeMobile"), Plain("Update")>>
                \o PrepareSource \o PrepareKey \o <<Plain("ParseIni")>>
                \o Addons \o <<Plain("Build")>>

Prepare ==
    /\ status = "idle"
    /\ env.mode = "build"
    /\ Start("prepare", PrepareBatch)
    /\ UNCHANGED <<env, session, output, submitted>>

ApplyEccNow ==
    /\ status = "idle"
    /\ env.mode # "library"
    /\ \E ecc \in Eccs : Start("direct", <<Command("ApplyEcc", ecc, NoKey)>>)
    /\ UNCHANGED <<env, session, output, submitted>>

ExtractNow ==
    /\ status = "idle"
    /\ env.mode # "library"
    /\ Start("direct", <<Plain("ExtractAll")>>)
    /\ UNCHANGED <<env, session, output, submitted>>

Submit ==
    /\ status = "idle"
    /\ env.mode = "library"
    /\ submitted < MaxBatches
    /\ submitted' = submitted + 1
    /\ \E cs \in Batches : Start("direct", cs)
    /\ UNCHANGED <<env, session, output>>

-----------------------------------------------------------------------------

\* The keys a session is made with: BuildConfig's fields are public.
GivenKeys == IF env.mode = "library" THEN Key ELSE {NoKey}

Init ==
    /\ env \in Environments
    /\ active_nand = NoNand
    /\ pending_key \in GivenKeys
    /\ option_key \in GivenKeys
    /\ fs_assets \in (IF env.mode = "library" THEN BOOLEAN ELSE {FALSE})
    /\ output = NoOutput
    /\ caller = "cli"
    /\ queue = <<>>
    /\ status = IF env.mode = "library" THEN "idle" ELSE "start"
    /\ batch = <<>>
    /\ applied = {}
    /\ failed = FALSE
    /\ submitted = 0

Next == CliBuild \/ CliExtract \/ Prepare \/ ApplyEccNow \/ ExtractNow \/ Submit \/ Execute

\* The loop over a batch runs on the caller's thread: nothing else does until
\* it returns.
Spec == Init /\ [][Next]_vars /\ WF_vars(Execute)

-----------------------------------------------------------------------------
(* Properties. *)

\* Every part of a session has its type, and a batch is running exactly as long
\* as commands are left.
TypeOK ==
    /\ env \in Environments
    /\ active_nand \in Nand \cup {NoNand}
    /\ pending_key \in Key
    /\ option_key \in Key
    /\ fs_assets \in BOOLEAN
    /\ output \in Nand \cup {NoOutput, Torn}
    /\ caller \in {"cli", "prepare", "direct"}
    /\ status \in {"start", "running", "idle", "exited"}
    /\ queue \in Seq(Commands)
    /\ batch \in Seq(Commands)
    /\ applied \subseteq Patches
    /\ failed \in BOOLEAN
    /\ submitted \in 0 .. MaxBatches
    /\ status = "running" <=> queue # <<>>

NextIs(ops) == status = "running" /\ Head(queue).op \in ops

\* Most commands only log a message when no NAND is loaded.  In the batches the
\* program makes itself, none of them is ever executed without one - whatever
\* earlier batches, or a failed apply_ecc, have done to the session.
NothingSkipped ==
    /\ caller \in {"cli", "prepare"}
    /\ NextIs({"ApplyEcc", "ParseIni", "FinalizeFlashfs", "FinalizeMobile",
                "ApplyPatch", "ExtractAll"})
    => active_nand # NoNand

\* When such a batch comes to its Build, the session's NAND is complete: it is
\* assembled from the INI for the target's layout, under the session's key, its
\* file system made of the assets that INI found, its mobile data completed
\* from the data folder, and every patch that was applied is still in it.
ReadyToBuild ==
    caller \in {"cli", "prepare"} /\ NextIs({"Build"}) =>
        /\ active_nand # NoNand
        /\ active_nand.ini
        /\ active_nand.layout = TargetLayout
        /\ active_nand.key = pending_key
        /\ active_nand.fs = IF fs_assets THEN "assets" ELSE "empty"
        /\ active_nand.mobile = FolderTier(active_nand.mobile)
        /\ applied \subseteq active_nand.patches

Builds(cs) == {i \in DOMAIN cs : cs[i].op = "Build"}

\* In whatever order a batch is submitted, a patch that was applied is still in
\* the NAND when only the Builds are left: no command that replaces the NAND is
\* executed after a patch.
PatchesSurvive ==
    /\ status = "running"
    /\ Len(queue) = Cardinality(Builds(batch))
    /\ applied # {}
    => active_nand # NoNand /\ applied \subseteq active_nand.patches

\* The output file is written only after every other command of the batch has
\* succeeded, and never again in a batch that has failed.
ImageWrittenLast ==
    [][output' # output => ~failed /\ \A i \in DOMAIN queue : queue[i].op = "Build"]_vars

\* A batch always comes to its end - in the image it was to build, in an error,
\* or in an idle session - however its commands fail.
BatchEnds == status = "running" ~> status # "running"

\* The session holds two CPU keys that differ.
TwoKeys == NoKey \notin {pending_key, option_key} /\ pending_key # option_key

\* The image is written under the key its NAND was given (sync_options_to_nand
\* puts the options' key there, Build takes pending_key) exactly when the two
\* places that keep the CPU key do not differ; and they never differ in a
\* session of the command line, whatever is done to it.  A library user can make
\* them differ, by ParseKey after Clear for one, which leaves the options' key.
OneKeyPerImage ==
    [][output' # output /\ output' \in Nand =>
          /\ output'.key # active_nand'.key <=> TwoKeys
          /\ TwoKeys => env.mode = "library"]_vars
==============================================================================
