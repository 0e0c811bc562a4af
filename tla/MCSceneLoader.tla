---------------------------- MODULE MCSceneLoader ----------------------------
(* Small instances of SceneLoader for TLC; the .cfg files give its bounds.    *)
EXTENDS SceneLoader

=============================================================================
