------------------------------- MODULE MCCard -------------------------------
(***************************************************************************)
(* One card of each kind.                                                  *)
(***************************************************************************)
EXTENDS Card, TLC
CONSTANTS mmc, sd1, sd2, sdhc
MCKind  == mmc :> "MMC" @@ sd1 :> "SDv1" @@ sd2 :> "SDv2" @@ sdhc :> "SDHC"
\* Sector 2 is the last, and sector 5 wraps around in a byte address.
MCCalls == {[op |-> "init"], [op |-> "poll"]}
             \union [op : {"read"}, sector : {1, 5}, count : {1}]
             \union [op : {"read", "write"}, sector : {1, 2}, count : {2}]
             \union [op : {"write"}, sector : {1}, count : {1}]
             \union [op : {"ioctl"}, ctrl : {"CTRL_SYNC", "MMC_GET_TYPE", "MMC_GET_OCR",
                                            "GET_BLOCK_SIZE"}]
=============================================================================
