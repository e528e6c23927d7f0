SPECIFICATION Spec
CONSTANTS
    CESAR_SHIFT = 1
    BUFFER_SIZE = 4
    Texts <- MCTexts
    Responses <- MCResponses
    Garbage = {65}
    MaxSaid = 6
    MaxAnswers = 2
INVARIANTS LoopsStayInside HeardAsSaid SeenAsAnswered
