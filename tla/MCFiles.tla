------------------------------- MODULE MCFiles --------------------------------
(***************************************************************************)
(* An instance of FileUpload and FileDownload for TLC.  A client uploads or *)
(* downloads: the two share nothing, so the run explores one or the other.  *)
(***************************************************************************)
EXTENDS FileUpload, FileDownload

VARIABLE transfer

allVars == <<vars, downloadVars, transfer>>

MCInit ==
    /\ Init
    /\ DownloadInit
    /\ \/ transfer = "upload" /\ style = "plain"
       \/ transfer = "download" /\ source = "reopen"

MCNext ==
    \/ transfer = "upload" /\ Next /\ UNCHANGED <<downloadVars, transfer>>
    \/ transfer = "download" /\ DownloadNext /\ UNCHANGED <<vars, transfer>>

MCSpec == MCInit /\ [][MCNext]_allVars /\ Fairness /\ DownloadFairness

MCRanges == {WholeFile, Range("closed", 0, 1), Range("closed", 1, 7), Range("closed", 2, 1),
             Range("open", 1, 0), Range("open", 5, 0), Range("suffix", 0, 0),
             Range("suffix", 0, 2), Range("suffix", 0, 9)}
===============================================================================
