\* One process holds three meetings of two rounds, over caps of two.
SPECIFICATION Spec
CONSTANTS
    Processes = {server}
    Roles = {implementation, risk}
    LessonCap = 2
    Absent = Absent
    Torn = Torn
    Unread = Unread
    EventCap = 2
    MaxRounds = 2
    MaxMeetings = 3
INVARIANTS
    TypeOK
    MemoryFollowsJournal
    RecordHasTheLatestPlan
PROPERTY LessonsLeaveByAge
CHECK_DEADLOCK FALSE
