-------------------------- MODULE MCResourceManager --------------------------
(***************************************************************************)
(* A texture, a view over it, a frame buffer over the view and a texture   *)
(* that is loaded from an asset.                                           *)
(***************************************************************************)
EXTENDS ResourceManager, TLC

CONSTANTS texture, view, frameBuffer, image, asset

MCDynamic == {texture, view, frameBuffer, image}
MCAssets == {asset}
MCParts == asset :> {image}
MCGiven ==
    (texture :> {{}}) @@ (image :> {{}}) @@ (view :> {{texture}, {asset}})
    @@ (frameBuffer :> {{view}, {view, texture}})
MCLoadable == {texture, image}
MCTextureFails == {texture, view}
==============================================================================
