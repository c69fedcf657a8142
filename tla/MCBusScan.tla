----------------------------- MODULE MCBusScan -----------------------------
(* One peer is a camera, a hub that answers nothing, a disk that has to be *)
(* root, or one with a minimal ROM; the other a disk with a bad resource   *)
(* manager, a Mac, a disk that asks for gap 63, or one with the GUID of    *)
(* the disk that has to be root.                                           *)
EXTENDS BusScan

CONSTANTS p1, p2

Camera == [contender |-> FALSE, irmWorks |-> FALSE, busMgr |-> FALSE,
           rom |-> "full", slow |-> FALSE, speed |-> 0, guess |-> FALSE,
           guid |-> 1, flags |-> {"kIOFWMustNotBeRoot"}]
BadDisk == [Camera EXCEPT !.contender = TRUE, !.speed = 2, !.guess = TRUE,
                          !.guid = 2, !.flags = {}]
Mac == [Camera EXCEPT !.contender = TRUE, !.irmWorks = TRUE, !.busMgr = TRUE,
                      !.speed = 2, !.guid = 3, !.flags = {}]
Hub == [Camera EXCEPT !.contender = TRUE, !.rom = "none", !.guid = 0,
                      !.flags = {}]
RootDisk == [Camera EXCEPT !.contender = TRUE, !.irmWorks = TRUE,
                           !.speed = 2, !.guid = 4, !.slow = TRUE,
                           !.flags = {"kIOFWMustBeRoot"}]
OldDisk == [Camera EXCEPT !.rom = "minimal", !.guid = 0, !.flags = {}]
GapDisk == [Camera EXCEPT !.guid = 5, !.flags = {"kIOFWMustHaveGap63"}]
Clone == [Camera EXCEPT !.guid = 4, !.flags = {}]

MCMakes == (p1 :> {Camera, Hub, RootDisk, OldDisk})
           @@ (p2 :> {BadDisk, Mac, GapDisk, Clone})

=============================================================================
