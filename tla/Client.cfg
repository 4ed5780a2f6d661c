\* A user with four lines, each a command in one state, a nickname, chat or nothing in
\* the others, and a connection that may end at any time.
CONSTANTS
    Texts = {"create", "join", "leave", "blank"}
    MaxLines = 4
    MaxAhead = 2
SPECIFICATION Spec
INVARIANT TypeOK
INVARIANT HandledAsMeant
INVARIANT LinesAccountedFor
INVARIANT RacesOnlyAtPrompt
PROPERTY ImplementsChatClient
PROPERTY QuestionIsSettled
\* The user stops typing.
CHECK_DEADLOCK FALSE
