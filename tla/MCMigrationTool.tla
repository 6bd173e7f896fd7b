---------------------------- MODULE MCMigrationTool -------------------------
EXTENDS MigrationTool

(* An image as a controller of the given version leaves it: all its parts  *)
(* have a value, where the exporter looks for them.  The firmware is not   *)
(* part of the repository.                                                 *)
DeviceImage(lay, hw, prot, app) ==
  [layout |-> lay,
   versions |->
     [place \in {<<"protocol", "ZW_VERSION">>, ReadAt("APP_VERSION", lay, hw, prot, prot)} |->
        IF place[2] = "ZW_VERSION"
          THEN [format |-> TargetFormat(prot), version |-> prot]
          ELSE [format |-> 0, version |-> app]],
   held |->
     [entry \in {PlaceRead(p, lay, hw, prot, prot) : p \in PartsWritten(prot)} |-> "value"],
   path |-> {<<"device", prot>>},
   lost |-> {}]

(* README.md:156: images of 700 series controllers with 7.21.0 lack the     *)
(* application data.                                                       *)
WithoutPart(im, p) ==
  [im EXCEPT !.held = [entry \in {e \in DOMAIN im.held : e[2] # p} |-> im.held[entry]]]

(* An application that has stored no data of its own.                      *)
WithDefault(im, p) ==
  [im EXCEPT !.held =
     [entry \in DOMAIN im.held |-> IF entry[2] = p THEN "default" ELSE im.held[entry]]]

Image721 == DeviceImage("700s", "UNDEFINED_HARDWARE", <<7, 21, 0>>, <<7, 21, 0>>)

(* Controllers of both series, three layouts and all generations; one with *)
(* an application version of its own, one that lacks its command classes.  *)
MCGivenImages ==
  {DeviceImage("700s", "UNDEFINED_HARDWARE", <<7, 12, 0>>, <<7, 12, 0>>),
   DeviceImage("700s", "UNDEFINED_HARDWARE", <<7, 19, 0>>, <<7, 19, 0>>),
   DeviceImage("800s_PRIOR_719", "EFR32XG23", <<7, 18, 1>>, <<7, 18, 1>>),
   WithDefault(DeviceImage("800s_FROM_719", "EFR32XG28", <<7, 22, 0>>, <<7, 22, 0>>),
               "applicationData"),
   DeviceImage("800s_FROM_719", "EFR32XG28", <<7, 20, 0>>, <<1, 0, 0>>),
   WithoutPart(Image721, "applicationData"),
   WithoutPart(Image721, "cmdClasses")}

(* Formats 1, 2 and 5 in three layouts, one with a patch that is not a     *)
(* byte, one rejected by the 700 series, and a version that the upgrade    *)
(* accepts and the importer does not.                                      *)
MCTargets == {<<7, 12, 0>>, <<7, 15, 259>>, <<7, 19, 0>>, <<7, 22, 0>>, <<9, 0, 0>>}
==============================================================================
