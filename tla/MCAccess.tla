------------------------------ MODULE MCAccess ------------------------------
(***************************************************************************)
(* An instance of Access for TLC: the owner and two more DIDs, and short   *)
(* histories in which one is added, leaves, is added by the other,         *)
(* registers a repository and is made a collaborator, among events that    *)
(* must change nothing.                                                    *)
(***************************************************************************)
EXTENDS Access

CONSTANTS owner, other, third, repo

TwoDids == {owner, other}
ThreeDids == {owner, other, third}
OneName == {repo}

Put(k, author, about) ==
    [kind |-> k, operation |-> "put", author |-> author, about |-> about]
Delete(k, author, about) == [Put(k, author, about) EXCEPT !.operation = "delete"]

JoinAndLeave == <<Put("member", owner, other), Delete("member", other, other),
                  Put("member", third, other)>>
WorkTogether == <<Put("repo", other, repo), Put("collaborator", owner, other),
                  Put("other", owner, Junk)>>
OwnerDeletes == <<Put("member", owner, other), Delete("member", owner, other)>>

Histories == {JoinAndLeave, WorkTogether}
OneHistory == {OwnerDeletes}
=============================================================================
