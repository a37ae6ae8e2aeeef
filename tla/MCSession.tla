------------------------------ MODULE MCSession ------------------------------
(* TLC instances of Session: two dumps (one of another layout, one with      *)
(* mobile data), one ECC image, one patch, two CPU keys.                   *)
EXTENDS Session, TLC

CONSTANTS img1, img2, ecc1, pat1, key1, key2

MCLayoutOf == (img1 :> "Sb" @@ img2 :> "Bb" @@ ecc1 :> "Sb")
MCMobile   == {img1}

\* Command lines: both modes, with and without each file.
MCCommandLines ==
    [mode : {"build", "extract"}, key : {NoKey, key1}, image : {NoFile, img1, img2},
     ecc : {NoFile, ecc1}, addons : {<<>>, <<pat1>>}, dump : {NoFile, img1},
     plain_name : BOOLEAN, key_file : {NoKey, key2}, mobile_file : BOOLEAN, nomobile : BOOLEAN]

\* A user of the library, with a dump in the data folder.
MCLibrary ==
    {[mode |-> "library", key |-> NoKey, image |-> NoFile, ecc |-> NoFile, addons |-> <<>>,
      dump |-> img1, plain_name |-> FALSE, key_file |-> key2, mobile_file |-> TRUE,
      nomobile |-> FALSE]}

MCEnvironments == MCCommandLines \cup MCLibrary

\* What a user of the library may submit: any two commands that change the
\* session, one that does not and a Build, or three of those whose order
\* matters most.
MCChanging ==
    {Command("ParseKey", NoFile, key1), Command("ParseKeybin", NoFile, key2),
     Command("ParseImage", img1, NoKey), Command("ApplyEcc", ecc1, NoKey),
     Command("ApplyPatch", pat1, NoKey), Plain("ParseIni"), Plain("ParseFlashfs"),
     Plain("FinalizeFlashfs"), Plain("ApplyOptions"), Plain("Clear"), Plain("Build")}

MCOthers == {Plain(op) : op \in {"SwapBootloader", "ApplySmcSignature", "ParsePatch",
                                 "ExtractStfs", "Replace", "Compress"}}

MCOrdered ==
    {Command("ParseKey", NoFile, key1), Command("ParseKeybin", NoFile, key2),
     Command("ApplyPatch", pat1, NoKey), Plain("ParseIni"), Plain("Build")}

MCBatches == [1..2 -> MCChanging] \cup {<<Plain("Build"), c>> : c \in MCOthers}
             \cup [1..3 -> MCOrdered]
==============================================================================
