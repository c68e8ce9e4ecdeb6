\* A server and an export script append to the same lessons.
SPECIFICATION Spec
CONSTANTS
    Processes = {server, script}
    Roles = {implementation}
    LessonCap = 2
    Absent = Absent
    Torn = Torn
    Unread = Unread
    EventCap = 2
    MaxRounds = 1
    MaxMeetings = 2
PROPERTY LessonsLeaveByAge
CHECK_DEADLOCK FALSE
