----------------------------- MODULE MCRepository -----------------------------
(* Repository for TLC: two known locations; media with one thing broken,   *)
(* or none; accessors as DeviceAccessor and NFSAccessor make them.         *)
EXTENDS Repository

CONSTANTS d1, d2, d3

Locations == <<"base", "packages">>
At(a, b)  == ("base" :> a) @@ ("packages" :> b)
Sound ==
  [yum : {"none", "good"}, list : {"none"},
   at : {At("none", "none"), At("good", "main"), At("xsmain", "none"), At("xsmain", "main"), At("main", "good")}]
Faulty ==
  {[yum |-> "format", list |-> "none", at |-> At("none", "good")],
   [yum |-> "good", list |-> "names", at |-> At("main", "good")],
   [yum |-> "none", list |-> "broken", at |-> At("main", "good")]}
  \cup [yum : {"good"}, list : {"none"}, at : {At("good", "format"), At("other", "main"), At("main", "other")}]
MixedMedia == Sound \cup Faulty

Device == [types : {<<"iso9660", "vfat">>, <<"vfat", "iso9660">>}, options : {None, {"ro"}}]
Nfs    == [types : {<<"nfs">>}, options : {{"tcp"}, {"tcp", "ro"}}]
AsMade == Device \cup Nfs
=============================================================================
