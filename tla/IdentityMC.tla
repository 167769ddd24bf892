------------------------------ MODULE IdentityMC ------------------------------
\* Who an actor is and whom it follows: a session's identity, the directory with the
\* prompt and the picker that search it, the profile records it shows, the AppView's
\* index of an author's follows, and the account and follows of aitty. In one behaviour
\* one of them is at work: they share nothing but the directory, and records at the PDS.
EXTENDS SessionIdentity, MentionPrompt, SessionPicker, ProfileRecord, FollowIndex,
        AittyIdentity, TLC

CONSTANTS
    a1, a2, s1, s2, s3, self, bob, bobDid,
    MaxEvents, \* bound: joins and notifications of a session together
    MaxFaults  \* bound: failures, reaps, kills and failed writes of a session together

VARIABLE client

clientVars == <<directoryVars, promptVars, pickerVars, profileVars>>
graphVars  == <<followVars, identityVars>>
actorVars  == <<vars, clientVars, graphVars, client>>

MCByHandle == <<a1, a2>>
MCQuery == {{a1}, {a2}, {a1, a2}}
MCRecent == <<s3, s1, s2>>
MCHandleOf == s1 :> a1 @@ s2 :> a1 @@ s3 :> NeverJoined
MCSubjectOf == bob :> "b" @@ bobDid :> "b"

\* What has no part in a behaviour starts in one way only.
ActorInit ==
    /\ Init
    /\ DirectoryInit
    /\ PromptInit
    /\ PickerInit
    /\ ProfileInit
    /\ FollowInit
    /\ IdentityInit
    /\ client \in {"session", "prompt", "picker", "profile", "follows", "aitty"}
    /\ client # "session" => ~codex
    /\ client # "picker" => \A a \in Actor : actors[a].known
    /\ client # "picker" => asked = [exact |-> {}, like |-> {}]

ActorNext ==
    \/ /\ client = "session"
       /\ Next
       /\ joins' + rows' <= MaxEvents
       /\ trouble' <= MaxFaults
       /\ UNCHANGED <<clientVars, graphVars, client>>
    \/ /\ client = "prompt"
       /\ PromptNext
       /\ UNCHANGED <<vars, pickerVars, profileVars, graphVars, client>>
    \/ /\ client = "picker"
       /\ PickerNext
       /\ UNCHANGED <<vars, promptVars, profileVars, graphVars, client>>
    \/ /\ client = "profile"
       /\ ProfileNext
       /\ UNCHANGED <<vars, directoryVars, promptVars, pickerVars, graphVars, client>>
    \/ /\ client = "follows"
       /\ FollowNext
       /\ UNCHANGED <<vars, clientVars, identityVars, client>>
    \/ /\ client = "aitty"
       /\ IdentityNext
       /\ UNCHANGED <<vars, clientVars, followVars, client>>

ActorSpec == ActorInit /\ [][ActorNext]_actorVars

ActorTypes ==
    /\ TypeOK /\ DirectoryTypes /\ PromptTypes /\ PickerTypes /\ ProfileTypes
    /\ FollowTypes /\ IdentityTypes

=============================================================================
