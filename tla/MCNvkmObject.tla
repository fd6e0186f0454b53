--------------------------- MODULE MCNvkmObject ---------------------------
(* The driver's client, a client of user space, a udevice of each, and two  *)
(* children of a channel.                                                   *)
EXTENDS NvkmObject, TLC

CONSTANTS drm, cli, udev1, udev2, chan, obj1, obj2

MCParent == (cli :> drm) @@ (udev1 :> drm) @@ (udev2 :> cli) @@ (chan :> udev1)
            @@ (obj1 :> chan) @@ (obj2 :> chan)
MCClass == (drm :> "client") @@ (cli :> "client") @@ (udev1 :> "device") @@ (udev2 :> "device")
           @@ (chan :> "channel") @@ (obj1 :> "child") @@ (obj2 :> "child")
MCEngine == ("channel" :> "fifo") @@ ("child" :> "gr")
MCSubdevs == <<"mc", "fifo", "gr">>
=============================================================================
